---- MODULE Spec2Model ----
(***************************************************************************)
(* A model of the YouTube streaming API server (src/main.py, src/config.py) *)
(* admission control, result cache and fallback resolver.                  *)
(*                                                                         *)
(* src/main.py imports rate_limiter, cache and youtube_utils from a module *)
(* "utils" whose source is not part of src/.  Those three objects are      *)
(* modelled from sections 4.1 and 4.2 of the specification; everything     *)
(* else is translated from src/main.py.                                    *)
(***************************************************************************)
EXTENDS Integers, Sequences, FiniteSets, TLC

VARIABLES
    now,        \* the wall clock (time.time()), in whole ticks
    requests,   \* rate_limiter.requests: client key -> admitted timestamps kept
    cache,      \* cache.cache: the entries, in insertion order
    cookies,    \* config.COOKIES_FILE is set and os.path.exists(it)
    YTDLP_DEFAULT_OPTS, \* config.YTDLP_DEFAULT_OPTS, the dict shared by all calls
    tasks,      \* the requests and calls in flight: the coroutines the event
                \* loop holds, each with its position and its locals
    last,       \* observation of the request handled by the latest step
    admitted,   \* history: client key -> times at which a request of the client
                \* was passed on to its handler
    denied,     \* history: client keys whose latest check was rejected
    written,    \* history: cache key still held -> when it was last set, the
                \* value and the ttl
    order       \* history: the keys present, in the order of their last set

vars == <<now, requests, cache, cookies, YTDLP_DEFAULT_OPTS, tasks, last, admitted, denied, written, order>>

(***************************************************************************)
(* Bounds of the model.  The configured values (src/config.py:11-12,19-20) *)
(* are RATE_LIMIT_WINDOW = 5, MAX_REQUESTS_PER_MINUTE = 15,                *)
(* CACHE_TTL = 7200 and MAX_CACHE_SIZE = 1000; the claims quantify over    *)
(* the configured values, and the model runs them scaled down.             *)
(***************************************************************************)
MaxTime == 3

window_duration == 1

max_requests == 2

ttl_default == 2

max_entries == 2

\* The longest list of formats the resolver answers with, where the
\* selection is checked over every list.
MaxCandidates == 2

\* The number of HTTP requests that go through the middleware where the
\* requests in flight are followed one by one.
MaxChecks == 3

\* The number of get_stream_info calls where the calls in flight are
\* followed step by step.
MaxCalls == 2

Times == 0 .. MaxTime

(***************************************************************************)
(* Sequence helpers.                                                       *)
(***************************************************************************)
RECURSIVE SelectSeqBy(_, _)
\* Python's list comprehension [x for x in s if Keep(x)] - via SelectSeq with
\* the test passed as a set of the kept values.
SelectSeqBy(s, keep) ==
    IF s = <<>> THEN <<>>
    ELSE IF Head(s) \in keep
         THEN <<Head(s)>> \o SelectSeqBy(Tail(s), keep)
         ELSE SelectSeqBy(Tail(s), keep)

Range(s) == {s[i] : i \in 1 .. Len(s)}

(***************************************************************************)
(* 4.1 Admission Controller: rate_limiter.check_limit(client_key).         *)
(* "drop all timestamps older than now - window_duration; if remaining     *)
(*  count >= max_requests, return false (reject) without recording; else   *)
(*  append now and return true."                                           *)
(***************************************************************************)
Prune(w, t) == SelectSeqBy(w, {ts \in Range(w) : ts >= t - window_duration})

\* The window a client has before its first check: lazily created, empty.
WindowOf(reqs, client) == IF client \in DOMAIN reqs THEN reqs[client] ELSE <<>>

\* The mutant records the time of a rejected check too.
CheckLimitMutRecordRejected(reqs, client, t) ==
    LET w == Prune(WindowOf(reqs, client), t)
        ok == Len(w) < max_requests
    IN  [allowed |-> ok,
         requests |-> [c \in (DOMAIN reqs) \cup {client} |->
                          IF c = client THEN Append(w, t) ELSE reqs[c]]]

\* The mutant keeps one window for all clients: an admitted check is
\* recorded for every client seen so far.
CheckLimitMutSharedWindow(reqs, client, t) ==
    LET w == Prune(WindowOf(reqs, client), t)
        ok == Len(w) < max_requests
    IN  [allowed |-> ok,
         requests |-> [c \in (DOMAIN reqs) \cup {client} |->
                          IF ok THEN Append(Prune(WindowOf(reqs, c), t), t)
                          ELSE Prune(WindowOf(reqs, c), t)]]

check_limit(reqs, client, t) ==
    LET w == Prune(WindowOf(reqs, client), t)
        ok == Len(w) < max_requests
    IN  [allowed |-> ok,
         requests |-> [c \in (DOMAIN reqs) \cup {client} |->
                          IF c = client
                          THEN (IF ok THEN Append(w, t) ELSE w)
                          ELSE reqs[c]]]

(***************************************************************************)
(* Values of the external resolver (yt_dlp.YoutubeDL.extract_info).        *)
(* A numeric field of a format is a number, None, or missing from the      *)
(* dict; a codec is a name, "none", or "absent" (key missing or None).     *)
(***************************************************************************)
PyNone == -1

PyAbsent == -2

\* The formats the model's resolver answers with.
Fmt(id, ac, vc, abr, asr, h, url) ==
    [format_id |-> id, acodec |-> ac, vcodec |-> vc, abr |-> abr,
     tbr |-> PyAbsent, asr |-> asr, filesize |-> PyAbsent,
     height |-> h, width |-> PyAbsent, fps |-> PyAbsent, url |-> url]

\* best_format['url']: url says whether the format dict has the key.
StreamUrl(f) == "https://cdn/" \o f.format_id

\* A result dict without a 'format' key.
NoFormat == [missing |-> TRUE]

\* Python: x.get(k, 0) or 0
OrZero(v) == IF v > 0 THEN v ELSE 0

\* lines 256-260: the audio ranking key
AudioKey(x) ==
    <<IF OrZero(x.abr) # 0 THEN x.abr ELSE OrZero(x.tbr),
      OrZero(x.asr), OrZero(x.filesize)>>

\* lines 337-341: the video ranking key
VideoKey(x) == <<OrZero(x.height), OrZero(x.width), OrZero(x.fps)>>

\* Python's tuple comparison a > b on triples
TupleGreater(a, b) ==
    \/ a[1] > b[1]
    \/ a[1] = b[1] /\ a[2] > b[2]
    \/ a[1] = b[1] /\ a[2] = b[2] /\ a[3] > b[3]

RECURSIVE InsertDesc(_, _)
\* Insert the pair p = <<key, element>> into a list sorted by descending key,
\* after every pair whose key is not smaller: equal keys keep their order.
InsertDesc(sorted, p) ==
    IF sorted = <<>> THEN <<p>>
    ELSE IF TupleGreater(p[1], Head(sorted)[1])
         THEN <<p>> \o sorted
         ELSE <<Head(sorted)>> \o InsertDesc(Tail(sorted), p)

RECURSIVE SortPairsDesc(_, _)
SortPairsDesc(pairs, acc) ==
    IF pairs = <<>> THEN acc
    ELSE SortPairsDesc(Tail(pairs), InsertDesc(acc, Head(pairs)))

\* The mutant sorts without reverse=True: ascending.
SortAudioMutAscending(fs) ==
    LET sorted == SortPairsDesc([i \in 1 .. Len(fs) |-> <<AudioKey(fs[i]), fs[i]>>], <<>>)
    IN  [i \in 1 .. Len(sorted) |-> sorted[Len(sorted) - i + 1][2]]

\* list.sort(key=..., reverse=True): stable, descending
SortAudio(fs) ==
    LET sorted == SortPairsDesc([i \in 1 .. Len(fs) |-> <<AudioKey(fs[i]), fs[i]>>], <<>>)
    IN  [i \in 1 .. Len(sorted) |-> sorted[i][2]]

SortVideo(fs) ==
    LET sorted == SortPairsDesc([i \in 1 .. Len(fs) |-> <<VideoKey(fs[i]), fs[i]>>], <<>>)
    IN  [i \in 1 .. Len(sorted) |-> sorted[i][2]]

(***************************************************************************)
(* Results of a resolve: the dicts main.py builds, as records of one shape *)
(* (a missing key is "", NoFormat).  born is history: when the resolver    *)
(* produced the metadata the result was built from.                        *)
(***************************************************************************)
ErrorResult(msg, vid) ==
    [status |-> "error", video_id |-> vid, type |-> "", stream_url |-> "",
     format |-> NoFormat, method_used |-> "", message |-> msg, born |-> 0]

\* Python's None where a result is expected (a cache miss)
NoValue ==
    [status |-> "none", video_id |-> "", type |-> "", stream_url |-> "",
     format |-> NoFormat, method_used |-> "", message |-> "", born |-> 0]

SuccessResult(vid, type, url, fmt, method, t) ==
    [status |-> "success", video_id |-> vid, type |-> type, stream_url |-> url,
     format |-> fmt, method_used |-> method, message |-> "", born |-> t]

\* An outcome of one extract_info call: it raises, returns None, or returns
\* an info dict with a list of formats.
Raises(msg) == [kind |-> "raise", msg |-> msg, formats |-> <<>>]

ReturnsNone == [kind |-> "none", msg |-> "", formats |-> <<>>]

Returns(fs) == [kind |-> "info", msg |-> "", formats |-> fs]

(***************************************************************************)
(* 4.2 Result Cache: cache.get(key), cache.set(key, value[, ttl]).         *)
(* An entry is [key, value, created_at, ttl]; the sequence is the order of *)
(* insertion, oldest first.                                                *)
(***************************************************************************)
HasKey(c, key) == \E i \in 1 .. Len(c) : c[i].key = key

EntryOf(c, key) == c[CHOOSE i \in 1 .. Len(c) : c[i].key = key]

Without(c, key) == SelectSeqBy(c, {e \in Range(c) : e.key # key})

\* The mutant expires an entry when exactly its ttl has elapsed.
ExpiredMutAtTtl(e, t) == t - e.created_at >= e.ttl

Expired(e, t) == t - e.created_at > e.ttl

\* get: a miss if absent or if now - created_at > ttl; an expired entry found
\* during lookup is evicted at that time.
\* The mutant never expires an entry.
CacheGetMutLaxExpiry(c, key, t) ==
    IF HasKey(c, key)
    THEN [hit |-> TRUE, value |-> EntryOf(c, key).value, cache |-> c]
    ELSE [hit |-> FALSE, value |-> NoValue, cache |-> c]

CacheGet(c, key, t) ==
    IF ~HasKey(c, key)
    THEN [hit |-> FALSE, value |-> NoValue, cache |-> c]
    ELSE IF Expired(EntryOf(c, key), t)
         THEN [hit |-> FALSE, value |-> NoValue, cache |-> Without(c, key)]
         ELSE [hit |-> TRUE, value |-> EntryOf(c, key).value, cache |-> c]

\* set: inserts or overwrites; if inserting exceeds the configured maximum
\* entry count, the least-recently-inserted entry is evicted first.
\* The mutant evicts the entry inserted last.
CacheSetMutEvictNewest(c, key, value, ttl, t) ==
    LET e == [key |-> key, value |-> value, created_at |-> t, ttl |-> ttl]
    IN  IF HasKey(c, key) THEN Append(Without(c, key), e)
        ELSE IF Len(c) >= max_entries
             THEN Append(SubSeq(c, 1, Len(c) - 1), e)
             ELSE Append(c, e)

CacheSet(c, key, value, ttl, t) ==
    LET e == [key |-> key, value |-> value, created_at |-> t, ttl |-> ttl]
    IN  IF HasKey(c, key) THEN Append(Without(c, key), e)
        ELSE IF Len(c) >= max_entries
             THEN Append(Tail(c), e)
             ELSE Append(c, e)

\* main.py calls cache.set(cache_key, result) with no ttl: the configured one.
CacheSetDefault(c, key, value, t) == CacheSet(c, key, value, ttl_default, t)

\* clear_cache(): cache.cache.clear()
CacheClear(c) == <<>>

(***************************************************************************)
(* YouTubeDownloader._try_audio_method (lines 193-288)                     *)
(***************************************************************************)
\* lines 243-249: the formats kept as suitable
SuitableAudio(method, fs) ==
    SelectSeqBy(fs,
        {f \in Range(fs) :
            \/ method = "mixed_format_method" /\ f.acodec # "none"
            \/ f.acodec # "none"
               /\ (f.vcodec = "none" \/ method # "mixed_format_method")})

\* lines 273-282: the format dict of the result
AudioFormatOut(f) ==
    [abr |-> IF f.abr = PyAbsent THEN 128 ELSE f.abr,
     asr |-> IF f.asr = PyAbsent THEN 44100 ELSE f.asr,
     vcodec |-> IF f.vcodec = "absent" THEN "none" ELSE f.vcodec,
     acodec |-> IF f.acodec = "absent" THEN "none" ELSE f.acodec,
     filesize |-> IF f.filesize = PyAbsent THEN PyNone ELSE f.filesize]

\* lines 264-288: best_format['url'] raises KeyError when the key is missing
AudioResultOf(vid, method, best_format, t) ==
    IF ~best_format.url
    THEN ErrorResult(method \o ": 'url'", "")
    ELSE SuccessResult(vid, "audio", StreamUrl(best_format),
                       AudioFormatOut(best_format), method, t)

\* lines 251-264
SelectAudio(vid, method, suitable_formats, t) ==
    IF suitable_formats = <<>>
    THEN ErrorResult("No suitable formats in " \o method, "")
    ELSE AudioResultOf(vid, method, SortAudio(suitable_formats)[1], t)

\* The mutant has no except clause (lines 286-288): what extract_info raises
\* leaves the method as an exception.
TryAudioMethodMutNoCatch(vid, method, out, t) ==
    IF out.kind = "raise"
    THEN [ErrorResult(out.msg, "") EXCEPT !.status = "raised"]
    ELSE IF out.kind = "none"
    THEN ErrorResult("No video info found", "")
    ELSE SelectAudio(vid, method, SuitableAudio(method, out.formats), t)

TryAudioMethod(vid, method, out, t) ==
    IF out.kind = "raise"
    THEN ErrorResult(method \o ": " \o out.msg, "")
    ELSE IF out.kind = "none"
    THEN ErrorResult("No video info found", "")
    ELSE SelectAudio(vid, method, SuitableAudio(method, out.formats), t)

(***************************************************************************)
(* YouTubeDownloader.get_audio_stream (lines 159-191).  outs gives, for    *)
(* each method, what extract_info does when that method calls it.          *)
(***************************************************************************)
Methods ==
    <<"cookies_method", "mixed_format_method", "dash_method", "generic_method">>

MethodSet == Range(Methods)

\* A method called, with the status of the result it returned.
Tried(rs, m) == <<m, rs[m].status>>

\* The mutant drops the early return after method 2 (lines 176-177).
GetAudioStreamMutNoStop(with_cookies, rs) ==
    IF with_cookies /\ rs["cookies_method"].status = "success"
    THEN [result |-> rs["cookies_method"], tried |-> <<Tried(rs, "cookies_method")>>]
    ELSE IF rs["dash_method"].status = "success"
    THEN [result |-> rs["dash_method"],
          tried |-> (IF with_cookies THEN <<Tried(rs, "cookies_method")>> ELSE <<>>)
                    \o <<Tried(rs, "mixed_format_method"), Tried(rs, "dash_method")>>]
    ELSE [result |-> rs["generic_method"],
          tried |-> (IF with_cookies THEN <<Tried(rs, "cookies_method")>> ELSE <<>>)
                    \o <<Tried(rs, "mixed_format_method"), Tried(rs, "dash_method"),
                         Tried(rs, "generic_method")>>]

\* The mutant keeps the first failure: when method 4 fails too it returns the
\* result of method 2 instead of the result of line 187.
GetAudioStreamMutFirstFailure(with_cookies, rs) ==
    IF with_cookies /\ rs["cookies_method"].status = "success"
    THEN [result |-> rs["cookies_method"], tried |-> <<Tried(rs, "cookies_method")>>]
    ELSE IF rs["mixed_format_method"].status = "success"
    THEN [result |-> rs["mixed_format_method"],
          tried |-> (IF with_cookies THEN <<Tried(rs, "cookies_method")>> ELSE <<>>)
                    \o <<Tried(rs, "mixed_format_method")>>]
    ELSE IF rs["dash_method"].status = "success"
    THEN [result |-> rs["dash_method"],
          tried |-> (IF with_cookies THEN <<Tried(rs, "cookies_method")>> ELSE <<>>)
                    \o <<Tried(rs, "mixed_format_method"), Tried(rs, "dash_method")>>]
    ELSE [result |-> IF rs["generic_method"].status = "success"
                     THEN rs["generic_method"] ELSE rs["mixed_format_method"],
          tried |-> (IF with_cookies THEN <<Tried(rs, "cookies_method")>> ELSE <<>>)
                    \o <<Tried(rs, "mixed_format_method"), Tried(rs, "dash_method"),
                         Tried(rs, "generic_method")>>]

\* The mutant starts over at method 2 when method 4 has failed.
GetAudioStreamMutStartOver(with_cookies, rs) ==
    IF with_cookies /\ rs["cookies_method"].status = "success"
    THEN [result |-> rs["cookies_method"], tried |-> <<Tried(rs, "cookies_method")>>]
    ELSE IF rs["mixed_format_method"].status = "success"
    THEN [result |-> rs["mixed_format_method"],
          tried |-> (IF with_cookies THEN <<Tried(rs, "cookies_method")>> ELSE <<>>)
                    \o <<Tried(rs, "mixed_format_method")>>]
    ELSE IF rs["dash_method"].status = "success"
    THEN [result |-> rs["dash_method"],
          tried |-> (IF with_cookies THEN <<Tried(rs, "cookies_method")>> ELSE <<>>)
                    \o <<Tried(rs, "mixed_format_method"), Tried(rs, "dash_method")>>]
    ELSE IF rs["generic_method"].status = "success"
    THEN [result |-> rs["generic_method"],
          tried |-> (IF with_cookies THEN <<Tried(rs, "cookies_method")>> ELSE <<>>)
                    \o <<Tried(rs, "mixed_format_method"), Tried(rs, "dash_method"),
                         Tried(rs, "generic_method")>>]
    ELSE [result |-> rs["mixed_format_method"],
          tried |-> (IF with_cookies THEN <<Tried(rs, "cookies_method")>> ELSE <<>>)
                    \o <<Tried(rs, "mixed_format_method"), Tried(rs, "dash_method"),
                         Tried(rs, "generic_method"), Tried(rs, "mixed_format_method")>>]

\* lines 164-191, with rs[m] the result _try_audio_method returns for method
\* m when it is called.  tried lists the methods called, in call order.
GetAudioStreamBody(with_cookies, rs) ==
    IF with_cookies /\ rs["cookies_method"].status = "success"
    THEN [result |-> rs["cookies_method"], tried |-> <<Tried(rs, "cookies_method")>>]
    ELSE IF rs["mixed_format_method"].status = "success"
    THEN [result |-> rs["mixed_format_method"],
          tried |-> (IF with_cookies THEN <<Tried(rs, "cookies_method")>> ELSE <<>>)
                    \o <<Tried(rs, "mixed_format_method")>>]
    ELSE IF rs["dash_method"].status = "success"
    THEN [result |-> rs["dash_method"],
          tried |-> (IF with_cookies THEN <<Tried(rs, "cookies_method")>> ELSE <<>>)
                    \o <<Tried(rs, "mixed_format_method"), Tried(rs, "dash_method")>>]
    ELSE [result |-> rs["generic_method"],
          tried |-> (IF with_cookies THEN <<Tried(rs, "cookies_method")>> ELSE <<>>)
                    \o <<Tried(rs, "mixed_format_method"), Tried(rs, "dash_method"),
                         Tried(rs, "generic_method")>>]

\* What _try_audio_method returns for each method, if it is called.
Attempts(vid, outs, t) == [m \in MethodSet |-> TryAudioMethod(vid, m, outs[m], t)]

\* The mutant tries method 1 whatever use_cookies says.
GetAudioStreamMutIgnoreFlag(vid, use_cookies, ck, outs, t) ==
    GetAudioStreamBody(ck, [m \in MethodSet |-> TryAudioMethod(vid, m, outs[m], t)])

\* The mutant tries method 1 without looking for the cookies file.
GetAudioStreamMutNoFileTest(vid, use_cookies, ck, outs, t) ==
    GetAudioStreamBody(use_cookies,
                       [m \in MethodSet |-> TryAudioMethod(vid, m, outs[m], t)])

\* ck: config.COOKIES_FILE and os.path.exists(config.COOKIES_FILE), line 165
GetAudioStream(vid, use_cookies, ck, outs, t) ==
    GetAudioStreamBody(use_cookies /\ ck,
                       [m \in MethodSet |-> TryAudioMethod(vid, m, outs[m], t)])

(***************************************************************************)
(* youtube_utils: URLs are taken as already parsed.  A URL is valid when   *)
(* it is one of the YouTube forms, and a valid URL carries a video id.     *)
(***************************************************************************)
Url(valid, vid) == [valid |-> valid, vid |-> vid]

is_valid_youtube_url(url) == url.valid

\* None when no id is found, written ""
extract_video_id(url) == IF url.valid THEN url.vid ELSE ""

(***************************************************************************)
(* YouTubeDownloader.get_stream_info (lines 290-372).  vout is what        *)
(* extract_info does for a video request, aouts for the audio methods.     *)
(***************************************************************************)
(***************************************************************************)
(* YouTubeDownloader.get_ydl_options (lines 109-156) and the dict it       *)
(* starts from.  A dict is a record of the keys that are read or written   *)
(* here; "" and "absent" stand for a key that is not there.                *)
(***************************************************************************)
\* src/config.py:37-63
YtdlpDefaultOpts ==
    [socket_timeout |-> 60, format |-> "", cookiefile |-> "", proxy |-> "",
     geo_bypass |-> FALSE, geo_bypass_country |-> "", postprocessors |-> "absent",
     extractor_args |->
         [youtube |-> [player_client |-> <<"android", "web">>,
                       player_skip |-> <<"configs", "webpage">>,
                       skip |-> <<>>]]]

\* lines 128-154: ydl_opts['format'], which is left as it is for a
\* video_type other than "audio" and "video"
FormatFor(video_type, quality, was) ==
    IF video_type = "audio" THEN "best[acodec!=none]"
    ELSE IF video_type # "video" THEN was
    ELSE IF quality = "low" THEN "best[height<=360]"
    ELSE IF quality = "medium" THEN "best[height<=480]"
    ELSE IF quality = "high" THEN "best[height<=720]"
    ELSE "best[height<=1080]/best"

\* lines 114-131: the keys assigned in the dict ydl_opts itself
\* (config.PROXY is None, src/config.py:23)
TopLevel(d, ck, video_type, quality) ==
    [d EXCEPT !.cookiefile = IF ck THEN "cookies.txt" ELSE @,
              !.geo_bypass = TRUE,
              !.geo_bypass_country = "IN",
              !.format = FormatFor(video_type, quality, @),
              !.postprocessors = IF video_type = "audio" THEN "[]" ELSE @]

\* lines 135-141: ydl_opts['extractor_args'].update(...), on the dict that
\* ydl_opts['extractor_args'] refers to
ExtractorArgs(args, video_type) ==
    IF video_type = "audio"
    THEN [args EXCEPT !.youtube =
             [player_client |-> <<"android", "ios", "web", "tvhtml5">>,
              player_skip |-> <<"configs", "webpage">>,
              skip |-> <<"hls", "dash">>]]
    ELSE args

\* The mutant has no .copy() at line 112: ydl_opts is the shared dict.
GetYdlOptionsMutNoCopy(opts, ck, video_type, quality) ==
    [ydl_opts |-> [TopLevel(opts, ck, video_type, quality) EXCEPT
                      !.extractor_args = ExtractorArgs(opts.extractor_args, video_type)],
     config |-> [TopLevel(opts, ck, video_type, quality) EXCEPT
                    !.extractor_args = ExtractorArgs(opts.extractor_args, video_type)]]

\* lines 109-156, called when config.YTDLP_DEFAULT_OPTS is opts: the dict
\* returned and config.YTDLP_DEFAULT_OPTS afterwards.  dict.copy() is
\* shallow: the keys of the copy are its own, the dict under
\* 'extractor_args' is the one the shared dict holds.
get_ydl_options(opts, ck, video_type, quality) ==
    [ydl_opts |-> [TopLevel(opts, ck, video_type, quality) EXCEPT
                      !.extractor_args = ExtractorArgs(opts.extractor_args, video_type)],
     config |-> [opts EXCEPT
                    !.extractor_args = ExtractorArgs(opts.extractor_args, video_type)]]

\* lines 146-154: the height ceiling get_ydl_options puts in ydl_opts['format']
Ceiling(quality) ==
    CASE quality = "low" -> 360
      [] quality = "medium" -> 480
      [] quality = "high" -> 720
      [] OTHER -> 1080

\* The mutant keeps every format.
VideoFormatsMutKeepAll(fs) == fs

\* lines 332-333
VideoFormats(fs) == SelectSeqBy(fs, {f \in Range(fs) : f.vcodec # "none"})

\* lines 348-355: .get(key) without a default gives None for a missing key
VideoFormatOut(f) ==
    [height |-> IF f.height = PyAbsent THEN PyNone ELSE f.height,
     width |-> IF f.width = PyAbsent THEN PyNone ELSE f.width,
     fps |-> IF f.fps = PyAbsent THEN PyNone ELSE f.fps,
     filesize |-> IF f.filesize = PyAbsent THEN PyNone ELSE f.filesize]

\* lines 344-356: best_video['url'] raises KeyError when the key is missing
VideoResultOf(vid, best_video, t) ==
    IF ~best_video.url
    THEN ErrorResult("'url'", vid)
    ELSE SuccessResult(vid, "video", StreamUrl(best_video),
                       VideoFormatOut(best_video), "", t)

\* lines 335-358
SelectVideo(vid, video_formats, t) ==
    IF video_formats = <<>>
    THEN ErrorResult("No suitable video format found", vid)
    ELSE VideoResultOf(vid, SortVideo(video_formats)[1], t)

\* lines 311-358: the video branch, with every exception it raises turned
\* into the error result of lines 366-372
ResolveVideo(vid, vout, t) ==
    IF vout.kind = "raise" THEN ErrorResult(vout.msg, vid)
    ELSE IF vout.kind = "none"
    THEN ErrorResult("Could not extract video info", vid)
    ELSE SelectVideo(vid, VideoFormats(vout.formats), t)

\* A video resolve is a chain of the one call "direct".
Direct(v) == [result |-> v, tried |-> <<<<"direct", v.status>>>>]

\* The mutant goes on to the audio chain when the video resolve fails.
ResolveMutFallback(ck, vid, type, vout, aouts, t) ==
    IF type = "audio"
    THEN GetAudioStream(vid, TRUE, ck, aouts, t)
    ELSE IF ResolveVideo(vid, vout, t).status = "success"
    THEN Direct(ResolveVideo(vid, vout, t))
    ELSE [result |-> GetAudioStream(vid, TRUE, ck, aouts, t).result,
          tried |-> Direct(ResolveVideo(vid, vout, t)).tried
                    \o GetAudioStream(vid, TRUE, ck, aouts, t).tried]

\* lines 307-358
Resolve(ck, vid, type, vout, aouts, t) ==
    IF type = "audio"
    THEN GetAudioStream(vid, TRUE, ck, aouts, t)
    ELSE Direct(ResolveVideo(vid, vout, t))

CacheKey(vid, type, quality) == vid \o ":" \o type \o ":" \o quality

\* What a call did: the cache key it used, its result, the cache it leaves,
\* the number of cache gets and sets, whether the result was a cache hit,
\* and the methods each resolve tried.
Did(key, result, c, gets, sets, hit, chains) ==
    [key |-> key, result |-> result, cache |-> c, gets |-> gets,
     sets |-> sets, hit |-> hit, chains |-> chains]

\* The call reached the else branch of line 310: it made the one resolver
\* call "direct", for which line 311 builds the options.
BuildsOptions(did) ==
    /\ Len(did.chains) = 1
    /\ Len(did.chains[1]) = 1
    /\ did.chains[1][1][1] = "direct"

\* config.YTDLP_DEFAULT_OPTS after a call of get_stream_info(url, type,
\* quality) that did did (lines 307-311).
ConfigAfter(opts, ck, type, quality, did) ==
    IF BuildsOptions(did) THEN get_ydl_options(opts, ck, type, quality).config
    ELSE opts

\* The mutant stores the result whatever its status.
GetStreamInfoMutCacheAll(c, vid, key, got, res, t) ==
    IF vid = ""
    THEN Did("", ErrorResult("Invalid YouTube URL", "unknown"), c, 0, 0, FALSE, <<>>)
    ELSE IF got.hit THEN Did(key, got.value, got.cache, 1, 0, TRUE, <<>>)
    ELSE Did(key, res.result, CacheSetDefault(got.cache, key, res.result, t),
             1, 1, FALSE, <<res.tried>>)

\* The mutant resolves without looking the key up.
GetStreamInfoMutNoLookup(c, vid, key, got, res, t) ==
    IF vid = ""
    THEN Did("", ErrorResult("Invalid YouTube URL", "unknown"), c, 0, 0, FALSE, <<>>)
    ELSE IF res.result.status = "success"
    THEN Did(key, res.result, CacheSetDefault(c, key, res.result, t),
             0, 1, FALSE, <<res.tried>>)
    ELSE Did(key, res.result, c, 0, 0, FALSE, <<res.tried>>)

\* lines 293-372, with got what cache.get(cache_key) answers (line 300) and
\* res what the resolve of lines 307-358 gives when it is reached.
GetStreamInfoBody(c, vid, key, got, res, t) ==
    IF vid = ""
    THEN Did("", ErrorResult("Invalid YouTube URL", "unknown"), c, 0, 0, FALSE, <<>>)
    ELSE IF got.hit THEN Did(key, got.value, got.cache, 1, 0, TRUE, <<>>)
    ELSE IF res.result.status = "success"
    THEN Did(key, res.result, CacheSetDefault(got.cache, key, res.result, t),
             1, 1, FALSE, <<res.tried>>)
    ELSE Did(key, res.result, got.cache, 1, 0, FALSE, <<res.tried>>)

GetStreamInfo(c, ck, url, type, quality, vout, aouts, t) ==
    GetStreamInfoBody(c, extract_video_id(url),
                      CacheKey(extract_video_id(url), type, quality),
                      CacheGet(c, CacheKey(extract_video_id(url), type, quality), t),
                      Resolve(ck, extract_video_id(url), type, vout, aouts, t), t)

(***************************************************************************)
(* stream_audio (lines 453-527)                                            *)
(***************************************************************************)
Contains(s, w) ==
    \E i \in 1 .. (Len(s) - Len(w) + 1) : SubSeq(s, i, i + Len(w) - 1) = w

UpperCase == "ABCDEFGHIJKLMNOPQRSTUVWXYZ"

LowerCase == "abcdefghijklmnopqrstuvwxyz"

LowerChar(ch) ==
    IF \E i \in 1 .. Len(UpperCase) : SubSeq(UpperCase, i, i) = ch
    THEN LET i == CHOOSE j \in 1 .. Len(UpperCase) : SubSeq(UpperCase, j, j) = ch
         IN  SubSeq(LowerCase, i, i)
    ELSE ch

RECURSIVE Lower(_)
\* str.lower()
Lower(s) ==
    IF Len(s) = 0 THEN s
    ELSE LowerChar(SubSeq(s, 1, 1)) \o Lower(SubSeq(s, 2, Len(s)))

\* The mutant has the import.
HashlibImportedMut == TRUE

\* main.py uses hashlib.md5 at line 513 and imports no hashlib (lines 1-22):
\* building the response headers raises NameError.
HashlibImported == FALSE

\* What a handler answered and did.
Answer(status, did) ==
    [status |-> status, key |-> did.key, result |-> did.result,
     cache |-> did.cache,
     gets |-> did.gets, sets |-> did.sets, hit |-> did.hit,
     chains |-> did.chains]

Nothing(c) == Did("", NoValue, c, 0, 0, FALSE, <<>>)

\* lines 462-527, with looked what cache.get(cache_key) answers (line 471),
\* first what the call of get_audio_stream at line 476 or 478 returns and
\* second what the retry of line 484 returns, each when it is reached.
StreamAudioBody(c, url, force_refresh, cache_key, looked, first, second, t) ==
    LET got == IF force_refresh
               THEN [hit |-> FALSE, value |-> NoValue, cache |-> c]
               ELSE looked
        gets == IF force_refresh THEN 0 ELSE 1
        use_cached == got.hit /\ got.value.status = "success"
        r1 == IF use_cached THEN got.value ELSE first.result
        ch1 == IF use_cached THEN <<>> ELSE <<first.tried>>
        retry == r1.status # "success" /\ Contains(Lower(r1.message), "cookies")
        result == IF retry THEN second.result ELSE r1
        chains == IF retry THEN ch1 \o <<second.tried>> ELSE ch1
    IN  IF ~is_valid_youtube_url(url) THEN Answer(400, Nothing(c))
        ELSE IF result.status # "success"
        THEN Answer(500, Did(cache_key, result, got.cache, gets, 0, FALSE, chains))
        ELSE IF ~HashlibImported
        THEN \* lines 501-514 raise NameError, caught at line 525
             Answer(500, Did(cache_key, result, got.cache, gets, 0, use_cached, chains))
        ELSE Answer(302, Did(cache_key, result,
                             CacheSetDefault(got.cache, cache_key, result, t),
                             gets, 1, use_cached, chains))

StreamAudio(c, ck, url, force_refresh, aouts, aouts2, t) ==
    StreamAudioBody(c, url, force_refresh, "audio:" \o extract_video_id(url),
                    CacheGet(c, "audio:" \o extract_video_id(url), t),
                    GetAudioStream(extract_video_id(url), TRUE, ck, aouts, t),
                    GetAudioStream(extract_video_id(url), FALSE, ck, aouts2, t), t)

(***************************************************************************)
(* stream_video (401-451), download_video (753-804), download_audio        *)
(* (806-848), clear_cache (875-879), health_check (850-860)                *)
(***************************************************************************)
Qualities == {"low", "medium", "high", "best"}

\* result['status'] (lines 423, 768, 818): a dict without the key raises
\* KeyError, which the handler's except clause answers 500.
StatusOf(result) == IF "status" \in DOMAIN result THEN result.status ELSE "KeyError"

\* The answer of a handler that validates, calls get_stream_info (did) and
\* answers 500 on a failure and ok on a success.
AnswerOf(c, valid, did, ok) ==
    IF ~valid THEN Answer(400, Nothing(c))
    ELSE IF StatusOf(did.result) # "success" THEN Answer(500, did)
    ELSE Answer(ok, did)

StreamVideo(c, ck, url, quality, vout, aouts, t) ==
    AnswerOf(c, is_valid_youtube_url(url) /\ quality \in Qualities,
             GetStreamInfo(c, ck, url, "video", quality, vout, aouts, t), 302)

DownloadVideo(c, ck, url, quality, vout, aouts, t) ==
    AnswerOf(c, is_valid_youtube_url(url),
             GetStreamInfo(c, ck, url, "video", quality, vout, aouts, t), 200)

DownloadAudio(c, ck, url, vout, aouts, t) ==
    AnswerOf(c, is_valid_youtube_url(url),
             GetStreamInfo(c, ck, url, "audio", "best", vout, aouts, t), 200)

ClearCache(c) == Answer(200, Nothing(CacheClear(c)))

(***************************************************************************)
(* get_video_info (lines 544-621) and search_videos (lines 623-693)        *)
(***************************************************************************)
RECURSIVE StripLeft(_)
StripLeft(s) ==
    IF Len(s) > 0 /\ SubSeq(s, 1, 1) = " " THEN StripLeft(SubSeq(s, 2, Len(s))) ELSE s

RECURSIVE StripRight(_)
StripRight(s) ==
    IF Len(s) > 0 /\ SubSeq(s, Len(s), Len(s)) = " "
    THEN StripRight(SubSeq(s, 1, Len(s) - 1)) ELSE s

\* str.strip(), for blanks
Strip(s) == StripRight(StripLeft(s))

\* line 556
InfoKey(vid) == "info:" \o vid

\* line 639
SearchKey(q, limit) == "search:" \o q \o ":" \o ToString(limit)

\* lines 577-612: the dict stored and returned by get_video_info
VideoInfo(vid, out, t) ==
    [video_id |-> vid, formats_count |-> Len(out.formats), born |-> t]

\* An extract_info outcome of a search: an info dict with entries.
ReturnsEntries(es) == [kind |-> "info", msg |-> "", formats |-> <<>>, entries |-> es]

\* line 659: info.get('entries', [])
Entries(out) == IF "entries" \in DOMAIN out THEN out.entries ELSE <<>>

\* lines 675-680: the dict stored and returned by search_videos
SearchResponse(q, limit, out, t) ==
    [success |-> TRUE, query |-> q, count |-> Len(Entries(out)),
     results |-> SubSeq(Entries(out), 1,
                        IF limit < Len(Entries(out)) THEN limit ELSE Len(Entries(out))),
     born |-> t]

\* lines 630-636 and 688-693: the dict returned for a failed search
SearchError(q, msg) == [success |-> FALSE, query |-> q, results |-> <<>>, error |-> msg]

\* lines 549-621, with got what cache.get(cache_key) answers (line 557) and
\* out what extract_info does (line 571).  Every exception, the 404 of line
\* 574 included, is answered 500 by lines 619-621.
GetVideoInfoBody(c, url, key, got, out, t) ==
    IF ~is_valid_youtube_url(url) THEN Answer(400, Nothing(c))
    ELSE IF got.hit THEN Answer(200, Did(key, got.value, got.cache, 1, 0, TRUE, <<>>))
    ELSE IF out.kind # "info"
    THEN Answer(500, Did(key, NoValue, got.cache, 1, 0, FALSE, <<<<<<"info", "error">>>>>>))
    ELSE Answer(200, Did(key, VideoInfo(extract_video_id(url), out, t),
                         CacheSetDefault(got.cache, key,
                                         VideoInfo(extract_video_id(url), out, t), t),
                         1, 1, FALSE, <<<<<<"info", "success">>>>>>))

GetVideoInfo(c, url, out, t) ==
    GetVideoInfoBody(c, url, InfoKey(extract_video_id(url)),
                     CacheGet(c, InfoKey(extract_video_id(url)), t), out, t)

\* lines 628-693, with got what cache.get(cache_key) answers (line 640) and
\* out what extract_info does (line 657).  A hit is returned with its
\* "success" set to True (line 642).
SearchVideosBody(c, q, limit, key, got, out, t) ==
    IF Len(Strip(q)) < 2
    THEN Answer(200, Did("", SearchError(q, "Search query too short"), c,
                         0, 0, FALSE, <<>>))
    ELSE IF got.hit
    THEN Answer(200, Did(key, [success |-> TRUE] @@ got.value, got.cache,
                         1, 0, TRUE, <<>>))
    ELSE IF out.kind # "info"
    THEN Answer(200, Did(key, SearchError(q, out.msg), got.cache, 1, 0, FALSE,
                         <<<<<<"search", "error">>>>>>))
    ELSE Answer(200, Did(key, SearchResponse(q, limit, out, t),
                         CacheSetDefault(got.cache, key, SearchResponse(q, limit, out, t), t),
                         1, 1, FALSE, <<<<<<"search", "success">>>>>>))

SearchVideos(c, q, limit, out, t) ==
    SearchVideosBody(c, q, limit, SearchKey(q, limit),
                     CacheGet(c, SearchKey(q, limit), t), out, t)

HealthCheck(c) == Answer(200, Nothing(c))

\* The route table: a request is its endpoint and query parameters; env is
\* what the external resolver does during the request.
Handle(c, ck, req, env, t) ==
    CASE req.endpoint = "/stream/video" ->
            StreamVideo(c, ck, req.url, req.quality, env.vout, env.aouts, t)
      [] req.endpoint = "/download/video" ->
            DownloadVideo(c, ck, req.url, req.quality, env.vout, env.aouts, t)
      [] req.endpoint = "/stream/audio" ->
            StreamAudio(c, ck, req.url, req.force_refresh, env.aouts, env.aouts2, t)
      [] req.endpoint = "/download/audio" ->
            DownloadAudio(c, ck, req.url, env.vout, env.aouts, t)
      [] req.endpoint = "/info" -> GetVideoInfo(c, req.url, env.vout, t)
      [] req.endpoint = "/search" -> SearchVideos(c, req.q, req.limit, env.vout, t)
      [] req.endpoint = "/clear-cache" -> ClearCache(c)
      [] OTHER -> HealthCheck(c)

(***************************************************************************)
(* rate_limit_middleware (lines 79-105)                                    *)
(***************************************************************************)
\* line 82: request.client.host if request.client else "unknown"; a request
\* without a client address has peer "".
ClientIp(peer) == IF peer # "" THEN peer ELSE "unknown"

\* The mutant calls the handler whatever check_limit returned.
RateLimitMiddlewareMutPassAll(c, chk, handled) ==
    [requests |-> chk.requests, allowed |-> chk.allowed, passed |-> TRUE,
     answer |-> handled]

\* The mutant answers 429 when check_limit returns true.
RateLimitMiddlewareMutInverted(c, chk, handled) ==
    [requests |-> chk.requests, allowed |-> chk.allowed, passed |-> ~chk.allowed,
     answer |-> IF chk.allowed THEN Answer(429, Nothing(c)) ELSE handled]

\* The mutant runs the handler before it looks at what check_limit returned.
RateLimitMiddlewareMutLateCheck(c, chk, handled) ==
    [requests |-> chk.requests, allowed |-> chk.allowed, passed |-> TRUE,
     answer |-> IF ~chk.allowed THEN [handled EXCEPT !.status = 429] ELSE handled]

\* lines 85-105, with chk what check_limit did and handled what call_next
\* answers when it is reached.  allowed: what check_limit returned; passed:
\* call_next was reached.
RateLimitMiddlewareBody(c, chk, handled) ==
    [requests |-> chk.requests, allowed |-> chk.allowed, passed |-> chk.allowed,
     answer |-> IF ~chk.allowed THEN Answer(429, Nothing(c)) ELSE handled]

rate_limit_middleware(reqs, c, ck, peer, req, env, t) ==
    RateLimitMiddlewareBody(c, check_limit(reqs, ClientIp(peer), t),
                            Handle(c, ck, req, env, t))

(***************************************************************************)
(* websocket_endpoint (lines 882-904): one received text message.  The     *)
(* "http" middleware of line 79 is not run for a WebSocket connection.     *)
(***************************************************************************)
WsMessage(c, ck, data, vout, aouts, t) ==
    IF data.command = "ping" THEN Answer(0, Nothing(c))
    ELSE IF data.command = "info"
    THEN IF is_valid_youtube_url(data.url)
         THEN Answer(0, GetStreamInfo(c, ck, data.url, "video", "best", vout, aouts, t))
         ELSE Answer(0, Nothing(c))
    ELSE Answer(0, Nothing(c))

(***************************************************************************)
(* The state machine                                                       *)
(***************************************************************************)
Peers == {"10.0.0.1", ""}

ClientKeys == {ClientIp(p) : p \in Peers}

\* The number of admissions of a client in the trailing window, by the history
InWindow(log, t) ==
    Cardinality({i \in 1 .. Len(log) : log[i] >= t - window_duration /\ log[i] <= t})

Keys(c) == {c[i].key : i \in 1 .. Len(c)}

\* The record of sets after a step that left cache c2: for each key still in
\* the cache, when it was last set, with what value and what ttl.
WrittenAfter(w, c2, a, ttl, t) ==
    LET kept == {k \in DOMAIN w : k \in Keys(c2)}
        new  == IF a.sets = 1 THEN {a.key} ELSE {}
    IN  [k \in kept \cup new |->
            IF k \in new THEN [at |-> t, value |-> a.result, ttl |-> ttl] ELSE w[k]]

\* Key was set, is still held, and no more than its ttl has elapsed since.
IsFresh(w, key, t) == key \in DOMAIN w /\ t - w[key].at <= w[key].ttl

\* The value key was last set to, if it is still held.
Expected(w, key) == IF key \in DOMAIN w THEN w[key].value ELSE NoValue

\* The order of insertion of the keys present after a step that left cache
\* c2, in which key k (or none, "") was set.
OrderAfter(ord, c2, k) ==
    LET kept == SelectSeqBy(ord, Keys(c2) \ {k})
    IN  IF k # "" /\ k \in Keys(c2) THEN Append(kept, k) ELSE kept

\* No middleware ran.
NoVerdict == [allowed |-> FALSE, passed |-> FALSE]

\* What the last step was and did, as seen from outside: the operation, the
\* client and the middleware's verdict (allowed: what check_limit returned;
\* passed: the request went on to its handler; prior: the client's requests
\* passed on in the trailing window before the step; recovered: allowed
\* after a rejection),
\* the answer, the cache operations and resolver calls made, the keys the
\* step removed from the cache, and what the record of sets held for the key.
Observe(op, client, verdict, prior, recovered, a, dropped, fresh, expected) ==
    [op |-> op, client |-> client, allowed |-> verdict.allowed,
     passed |-> verdict.passed, prior |-> prior,
     recovered |-> recovered, status |-> a.status, key |-> a.key,
     result |-> a.result, gets |-> a.gets, sets |-> a.sets, hit |-> a.hit,
     chains |-> a.chains, dropped |-> dropped, fresh |-> fresh,
     expected |-> expected]

Idle(op) ==
    Observe(op, "", NoVerdict, 0, FALSE, Answer(0, Nothing(<<>>)), {}, FALSE, NoValue)

Init ==
    /\ now = 0
    /\ requests = <<>>
    /\ cache = <<>>
    /\ cookies \in BOOLEAN
    /\ YTDLP_DEFAULT_OPTS = YtdlpDefaultOpts
    /\ tasks = <<>>
    /\ last = Idle("start")
    /\ admitted = [k \in ClientKeys |-> <<>>]
    /\ denied = {}
    /\ written = <<>>
    /\ order = <<>>

Tick ==
    /\ now < MaxTime
    /\ now' = now + 1
    /\ last' = Idle("tick")
    /\ UNCHANGED <<requests, cache, cookies, YTDLP_DEFAULT_OPTS, tasks, admitted, denied, written, order>>

\* The cache and its histories after a handler or call answered a.
StoredWith(ttl, op, client, verdict, prior, recovered, a) ==
    /\ cache' = a.cache
    /\ written' = WrittenAfter(written, a.cache, a, ttl, now)
    /\ order' = OrderAfter(order, a.cache, IF a.sets = 1 THEN a.key ELSE "")
    /\ last' = Observe(op, client, verdict, prior, recovered, a,
                       Keys(cache) \ Keys(a.cache),
                       IsFresh(written, a.key, now), Expected(written, a.key))

\* main.py sets with the configured ttl.
Stored(op, client, verdict, prior, recovered, a) ==
    StoredWith(ttl_default, op, client, verdict, prior, recovered, a)

\* The quality a video endpoint passes to get_stream_info (lines 421, 766);
\* the other requests have none.
QualityOf(req) == IF "quality" \in DOMAIN req THEN req.quality ELSE "best"

\* One HTTP request, from the middleware to the response.
Http(peer, req, env) ==
    \E m \in {rate_limit_middleware(requests, cache, cookies, peer, req, env, now)} :
        /\ requests' = m.requests
        /\ admitted' = IF m.passed
                       THEN [admitted EXCEPT ![ClientIp(peer)] = Append(@, now)]
                       ELSE admitted
        /\ denied' = IF m.allowed THEN denied \ {ClientIp(peer)}
                     ELSE denied \cup {ClientIp(peer)}
        /\ Stored(req.endpoint, ClientIp(peer),
                  [allowed |-> m.allowed, passed |-> m.passed],
                  InWindow(admitted[ClientIp(peer)], now),
                  m.allowed /\ ClientIp(peer) \in denied, m.answer)
        /\ YTDLP_DEFAULT_OPTS' = ConfigAfter(YTDLP_DEFAULT_OPTS, cookies, "video",
                                             QualityOf(req), m.answer)
        /\ UNCHANGED <<now, cookies, tasks>>

\* One text message on an accepted WebSocket connection.
Ws(data, vout, aouts) ==
    \E a \in {WsMessage(cache, cookies, data, vout, aouts, now)} :
        /\ Stored("/ws", "", NoVerdict, 0, FALSE, a)
        /\ YTDLP_DEFAULT_OPTS' = ConfigAfter(YTDLP_DEFAULT_OPTS, cookies, "video", "best", a)
        /\ UNCHANGED <<now, requests, cookies, tasks, admitted, denied>>

\* A call of downloader.get_stream_info by one of its callers (stream_video,
\* download_video, download_audio, websocket_endpoint).
\* type and out: the kind of stream asked for and what extract_info does for
\* a video when it is called.
CallGetStreamInfo(url, type, quality, vout, aouts) ==
    \E d \in {GetStreamInfo(cache, cookies, url, type, quality, vout, aouts, now)} :
        /\ cache' = d.cache
        /\ written' = WrittenAfter(written, d.cache, d, ttl_default, now)
        /\ order' = OrderAfter(order, d.cache, IF d.sets = 1 THEN d.key ELSE "")
        /\ last' = Observe("get_stream_info", "", NoVerdict, 0, FALSE, Answer(0, d),
                           Keys(cache) \ Keys(d.cache),
                           IsFresh(written, d.key, now), Expected(written, d.key))
                   @@ [type |-> type, out |-> [f \in DOMAIN vout |-> vout[f]]]
        /\ YTDLP_DEFAULT_OPTS' = ConfigAfter(YTDLP_DEFAULT_OPTS, cookies, type, quality, d)
        /\ UNCHANGED <<now, requests, cookies, tasks, admitted, denied>>

\* The handler stream_audio, once the middleware has passed the request on.
CallStreamAudio(url, force_refresh, aouts, aouts2) ==
    \E a \in {StreamAudio(cache, cookies, url, force_refresh, aouts, aouts2, now)} :
        /\ cache' = a.cache
        /\ written' = WrittenAfter(written, a.cache, a, ttl_default, now)
        /\ order' = OrderAfter(order, a.cache, IF a.sets = 1 THEN a.key ELSE "")
        /\ last' = Observe("/stream/audio", "", NoVerdict, 0, FALSE, a,
                           Keys(cache) \ Keys(a.cache),
                           IsFresh(written, a.key, now), Expected(written, a.key))
                   @@ [force_refresh |-> force_refresh]
        /\ UNCHANGED <<now, requests, cookies, YTDLP_DEFAULT_OPTS, tasks, admitted, denied>>

\* The handler clear_cache.
CallClearCache ==
    /\ Stored("/clear-cache", "", NoVerdict, 0, FALSE, ClearCache(cache))
    /\ UNCHANGED <<now, requests, cookies, YTDLP_DEFAULT_OPTS, tasks, admitted, denied>>

\* The cache's own operations, with any key, value and ttl.
DoSet(key, value, ttl) ==
    /\ StoredWith(ttl, "set", "", NoVerdict, 0, FALSE,
                  Answer(0, Did(key, value, CacheSet(cache, key, value, ttl, now),
                                0, 1, FALSE, <<>>)))
    /\ UNCHANGED <<now, requests, cookies, YTDLP_DEFAULT_OPTS, tasks, admitted, denied>>

DoGet(key) ==
    \E got \in {CacheGet(cache, key, now)} :
        /\ Stored("get", "", NoVerdict, 0, FALSE,
                  Answer(0, Did(key, got.value, got.cache, 1, 0, got.hit, <<>>)))
        /\ UNCHANGED <<now, requests, cookies, YTDLP_DEFAULT_OPTS, tasks, admitted, denied>>

(***************************************************************************)
(* The environment: the requests clients send and what the resolver does.  *)
(***************************************************************************)
V720 == Fmt("22", "mp4a", "avc1", PyAbsent, PyAbsent, 720, TRUE)

A128 == Fmt("140", "mp4a", "none", 128, 44100, PyAbsent, TRUE)

A192 == Fmt("251", "opus", "none", 192, 48000, PyAbsent, TRUE)

NoUrl == Fmt("18", "mp4a", "none", 96, PyAbsent, PyAbsent, FALSE)

VideoOnly == Fmt("313", "none", "vp9", PyAbsent, PyAbsent, 2160, TRUE)

\* A second format with the ranking key of A128.
A128Twin == Fmt("140-drc", "mp4a", "none", 128, 44100, PyAbsent, TRUE)

\* A128 with a known filesize.
A128Sized == [Fmt("140-1", "mp4a", "none", 128, 44100, PyAbsent, TRUE)
                 EXCEPT !.filesize = 5]

\* An audio format with no abr and a tbr.
Tbr160 == [Fmt("251-1", "opus", "none", PyAbsent, 48000, PyAbsent, TRUE)
              EXCEPT !.tbr = 160]

V360 == Fmt("134", "mp4a", "avc1", PyAbsent, PyAbsent, 360, TRUE)

\* A second format with the ranking key of V720.
V720Twin == Fmt("22-1", "mp4a", "avc1", PyAbsent, PyAbsent, 720, TRUE)

\* A format dict with neither an acodec nor a vcodec key.
Bare == Fmt("hls-0", "absent", "absent", 64, PyAbsent, 240, TRUE)

Video1 == Url(TRUE, "v1")

BadUrl == Url(FALSE, "")

CookieError == Raises("Sign in to confirm your age. Use --cookies")

AllMethods(out) == [m \in MethodSet |-> out]

NoAudio == AllMethods(ReturnsNone)

Request(endpoint, url, quality, force_refresh) ==
    [endpoint |-> endpoint, url |-> url, quality |-> quality,
     force_refresh |-> force_refresh]

\* GET /search?q=...&limit=...
SearchRequest(q, limit) == [endpoint |-> "/search", q |-> q, limit |-> limit]

Env(vout, aouts, aouts2) == [vout |-> vout, aouts |-> aouts, aouts2 |-> aouts2]

(***************************************************************************)
(* Spec: the HTTP and WebSocket endpoints behind the middleware, for one   *)
(* video.                                                                  *)
(***************************************************************************)
PipelineVideoOuts == {ReturnsNone, Returns(<<V720>>)}

PipelineAudioOuts ==
    {AllMethods(CookieError), AllMethods(Returns(<<A128>>))}

VideoRequest ==
    \E url \in {Video1, BadUrl}, q \in {"best", "4k"},
       vout \in PipelineVideoOuts :
        Http("10.0.0.1", Request("/stream/video", url, q, FALSE),
             Env(vout, NoAudio, NoAudio))

StreamAudioRequest ==
    \E url \in {Video1, BadUrl}, aouts \in PipelineAudioOuts :
        Http("10.0.0.1", Request("/stream/audio", url, "best", FALSE),
             Env(ReturnsNone, aouts, NoAudio))

AdminRequest ==
    \E ep \in {"/clear-cache", "/health"} :
        Http("10.0.0.1", Request(ep, BadUrl, "", FALSE),
             Env(ReturnsNone, NoAudio, NoAudio))

WsRequest ==
    \E url \in {Video1, BadUrl}, vout \in PipelineVideoOuts, cmd \in {"ping", "info", "text"} :
        Ws([command |-> cmd, url |-> url], vout, NoAudio)

Next ==
    \/ Tick
    \/ VideoRequest
    \/ StreamAudioRequest
    \/ AdminRequest
    \/ WsRequest

Spec == Init /\ [][Next]_vars

(***************************************************************************)
(* SpecAdmission: the middleware alone, for several clients, in front of a *)
(* handler that touches neither the cache nor the resolver.                *)
(***************************************************************************)
AnyRequest ==
    \E peer \in Peers :
        Http(peer, Request("/health", BadUrl, "", FALSE),
             Env(ReturnsNone, NoAudio, NoAudio))

NextAdmission == Tick \/ AnyRequest

SpecAdmission == Init /\ [][NextAdmission]_vars

(***************************************************************************)
(* SpecCache: the cache's operations with any key, value and ttl.          *)
(***************************************************************************)
\* One key more than the cache holds.
CacheKeys == {"k" \o ToString(i) : i \in 1 .. max_entries + 1}

\* The values set at time t.
CacheValues(t) ==
    {SuccessResult("v1", "video", StreamUrl(V720), VideoFormatOut(V720), "", t)}

CacheTtls == {0, ttl_default}

SetAny ==
    \E k \in CacheKeys, T \in CacheTtls :
        \E v \in CacheValues(now) : DoSet(k, v, T)

GetAny == \E k \in CacheKeys : DoGet(k)

NextCache == Tick \/ SetAny \/ GetAny \/ CallClearCache

SpecCache == Init /\ [][NextCache]_vars

(***************************************************************************)
(* SpecResolve: get_stream_info and stream_audio called for one video.     *)
(***************************************************************************)
ResolveVideoOuts ==
    {Raises("Video unavailable"), ReturnsNone, Returns(<<A128>>), Returns(<<V720>>)}

ResolveAudioOuts ==
    {AllMethods(CookieError), AllMethods(Returns(<<A128, A192>>))}

ResolveVideoCall ==
    \E vout \in ResolveVideoOuts :
        CallGetStreamInfo(Video1, "video", "best", vout, NoAudio)

ResolveAudioCall ==
    \E aouts \in ResolveAudioOuts :
        CallGetStreamInfo(Video1, "audio", "best", ReturnsNone, aouts)

StreamAudioCall ==
    \E url \in {Video1, BadUrl}, force \in BOOLEAN,
       aouts \in ResolveAudioOuts, aouts2 \in ResolveAudioOuts :
        CallStreamAudio(url, force, aouts, aouts2)

NextResolve ==
    \/ Tick
    \/ ResolveVideoCall
    \/ ResolveAudioCall
    \/ StreamAudioCall
    \/ CallClearCache

SpecResolve == Init /\ [][NextResolve]_vars

(***************************************************************************)
(* SpecChain: get_audio_stream under every combination of what the         *)
(* resolver does for the four methods.                                     *)
(***************************************************************************)
ChainOuts ==
    {Raises("Video unavailable"), ReturnsNone, Returns(<<VideoOnly>>),
     Returns(<<NoUrl>>), Returns(<<A128, A192>>)}

\* The calls of _try_audio_method a chain made, in call order: the method,
\* what extract_info did in it and what the call returned.
CallsOf(tried, outs, rs) ==
    [j \in 1 .. Len(tried) |->
        [method |-> tried[j][1], out |-> outs[tried[j][1]],
         result |-> rs[tried[j][1]]]]

\* A call of get_audio_stream, by get_stream_info or by stream_audio.
CallGetAudioStream(use_cookies, aouts) ==
    \E g \in {GetAudioStream("v1", use_cookies, cookies, aouts, now)} :
        /\ last' = Observe("get_audio_stream", "", NoVerdict, 0, FALSE,
                           Answer(0, Did("", g.result, cache, 0, 0, FALSE, <<g.tried>>)),
                           {}, FALSE, NoValue)
                   @@ [calls |-> CallsOf(g.tried, aouts, Attempts("v1", aouts, now)),
                       use_cookies |-> use_cookies]
        /\ UNCHANGED <<now, requests, cache, cookies, YTDLP_DEFAULT_OPTS, tasks, admitted, denied, written, order>>

ChainCall ==
    \E use_cookies \in BOOLEAN, aouts \in [MethodSet -> ChainOuts] :
        CallGetAudioStream(use_cookies, aouts)

NextChain == ChainCall

SpecChain == Init /\ [][NextChain]_vars

(***************************************************************************)
(* SpecSelect: the selection of _try_audio_method and of get_stream_info   *)
(* over every list of formats, of up to MaxCandidates formats, the         *)
(* resolver can answer with, and over the same formats in another order.   *)
(***************************************************************************)
CandidatePool ==
    {A128, A128Twin, A128Sized, A192, Tbr160, V360, V720, V720Twin, VideoOnly, Bare}

RECURSIVE ListsOver(_, _)
\* The lists of at most n different formats of pool.
ListsOver(pool, n) ==
    IF n = 0 THEN {<<>>}
    ELSE {<<>>} \cup
         UNION {{<<f>> \o l : l \in {k \in ListsOver(pool, n - 1) : f \notin Range(k)}} :
                f \in pool}

\* fs with the formats at positions i and i + 1 exchanged.
Swapped(fs, i) ==
    [j \in 1 .. Len(fs) |->
        IF j = i THEN fs[i + 1] ELSE IF j = i + 1 THEN fs[i] ELSE fs[j]]

\* The responses holding the formats of fs with two neighbours exchanged
\* (fs itself when it has fewer than two formats).
Reorderings(fs) ==
    IF Len(fs) < 2 THEN {fs} ELSE {Swapped(fs, i) : i \in 1 .. Len(fs) - 1}

\* Two resolver responses with the same formats, waiting to be selected from.
Candidates(fs, fs2) == Idle("candidates") @@ [formats |-> fs, reordered |-> fs2]

InitSelect ==
    /\ now = 0
    /\ requests = <<>>
    /\ cache = <<>>
    /\ cookies \in BOOLEAN
    /\ YTDLP_DEFAULT_OPTS = YtdlpDefaultOpts
    /\ tasks = <<>>
    /\ \E fs \in ListsOver(CandidatePool, MaxCandidates) :
           \E fs2 \in Reorderings(fs) : last = Candidates(fs, fs2)
    /\ admitted = [k \in ClientKeys |-> <<>>]
    /\ denied = {}
    /\ written = <<>>
    /\ order = <<>>

\* One call of _try_audio_method in which extract_info answers with the
\* formats, and (other) the same call with the reordered response.
SelectAudioCall ==
    \E method \in MethodSet :
        /\ last.op = "candidates"
        /\ last' = Observe("_try_audio_method", "", NoVerdict, 0, FALSE,
                           Answer(0, Did("", TryAudioMethod("v1", method, Returns(last.formats), now),
                                         cache, 0, 0, FALSE, <<>>)),
                           {}, FALSE, NoValue)
                   @@ [formats |-> last.formats, reordered |-> last.reordered,
                       method |-> method, quality |-> "",
                       other |-> TryAudioMethod("v1", method, Returns(last.reordered), now)]
        /\ UNCHANGED <<now, requests, cache, cookies, YTDLP_DEFAULT_OPTS, tasks, admitted, denied, written, order>>

\* One call of get_stream_info for a video in which extract_info answers
\* with the formats, and (other) the same call with the reordered response.
SelectVideoCall ==
    \E quality \in Qualities :
        \E d \in {GetStreamInfo(cache, cookies, Video1, "video", quality,
                                Returns(last.formats), NoAudio, now)} :
            /\ last.op = "candidates"
            /\ cache' = d.cache
            /\ written' = WrittenAfter(written, d.cache, d, ttl_default, now)
            /\ order' = OrderAfter(order, d.cache, IF d.sets = 1 THEN d.key ELSE "")
            /\ last' = Observe("get_stream_info", "", NoVerdict, 0, FALSE, Answer(0, d),
                               {}, FALSE, NoValue)
                       @@ [formats |-> last.formats, reordered |-> last.reordered,
                           method |-> "", quality |-> quality,
                           other |-> GetStreamInfo(cache, cookies, Video1, "video", quality,
                                                   Returns(last.reordered), NoAudio, now).result]
            /\ UNCHANGED <<now, requests, cookies, YTDLP_DEFAULT_OPTS, tasks, admitted, denied>>

NextSelect == SelectAudioCall \/ SelectVideoCall

SpecSelect == InitSelect /\ [][NextSelect]_vars

(***************************************************************************)
(* SpecValidate: the four streaming and download handlers, called with     *)
(* valid and invalid URLs and quality strings.                             *)
(***************************************************************************)
MediaEndpoints ==
    {"/stream/video", "/download/video", "/stream/audio", "/download/audio"}

\* The endpoints with a quality query parameter (lines 405 and 756).
QualityEndpoints == {"/stream/video", "/download/video"}

\* A handler called with request req, once the middleware has passed it on.
\* out: what extract_info does for a video, an info or a search call.
CallHandler(req, env) ==
    \E a \in {Handle(cache, cookies, req, env, now)} :
        /\ cache' = a.cache
        /\ written' = WrittenAfter(written, a.cache, a, ttl_default, now)
        /\ order' = OrderAfter(order, a.cache, IF a.sets = 1 THEN a.key ELSE "")
        /\ last' = Observe(req.endpoint, "", NoVerdict, 0, FALSE, a,
                           Keys(cache) \ Keys(a.cache),
                           IsFresh(written, a.key, now), Expected(written, a.key))
                   @@ [request |-> [f \in DOMAIN req |-> req[f]],
                       out |-> [f \in DOMAIN env.vout |-> env.vout[f]]]
        /\ YTDLP_DEFAULT_OPTS' = ConfigAfter(YTDLP_DEFAULT_OPTS, cookies, "video",
                                             QualityOf(req), a)
        /\ UNCHANGED <<now, requests, cookies, tasks, admitted, denied>>

MediaCall ==
    \E ep \in MediaEndpoints, url \in {Video1, BadUrl},
       vout \in PipelineVideoOuts, aouts \in PipelineAudioOuts :
        \E q \in (IF ep \in QualityEndpoints THEN {"best", "4k"} ELSE {"best"}) :
            CallHandler(Request(ep, url, q, FALSE), Env(vout, aouts, NoAudio))

NextValidate == MediaCall

SpecValidate == Init /\ [][NextValidate]_vars

(***************************************************************************)
(* SpecKeys: the handlers that share the cache, each under its own key     *)
(* format: download_video, stream_audio, get_video_info and search_videos. *)
(***************************************************************************)
\* A URL whose source identifier is the word "search".
VideoNamedSearch == Url(TRUE, "search")

KeysUrls == {Video1, VideoNamedSearch}

KeysDownload ==
    \E url \in KeysUrls, q \in {"best", "10"}, vout \in PipelineVideoOuts :
        CallHandler(Request("/download/video", url, q, FALSE),
                    Env(vout, NoAudio, NoAudio))

KeysAudio ==
    \E url \in KeysUrls, aouts \in PipelineAudioOuts :
        CallHandler(Request("/stream/audio", url, "best", FALSE),
                    Env(ReturnsNone, aouts, NoAudio))

KeysInfo ==
    \E url \in KeysUrls, vout \in PipelineVideoOuts :
        CallHandler(Request("/info", url, "", FALSE), Env(vout, NoAudio, NoAudio))

KeysSearch ==
    \E q \in {"video", "v "}, limit \in {10, 50},
       out \in {Raises("Unable to download API page"), ReturnsEntries(<<"v1">>)} :
        CallHandler(SearchRequest(q, limit), Env(out, NoAudio, NoAudio))

NextKeys == KeysDownload \/ KeysAudio \/ KeysInfo \/ KeysSearch

SpecKeys == Init /\ [][NextKeys]_vars

(***************************************************************************)
(* SpecConcurrent: up to MaxChecks HTTP requests in flight at once.  The   *)
(* event loop runs one coroutine at a time and switches at an await: a     *)
(* request arrives, later its middleware runs check_limit (one step, 4.1)  *)
(* and passes it on or answers 429, later the response of its handler is   *)
(* sent.  The steps of different requests interleave in every order.       *)
(***************************************************************************)
\* A request at position pc of rate_limit_middleware: "check" before line
\* 85, "handler" in call_next (line 96), "done" once answered, when the
\* coroutine and its locals are gone.
HttpTask(pc, peer) == [pc |-> pc, peer |-> peer]

NoTask == HttpTask("idle", "")

InitConcurrent ==
    /\ now = 0
    /\ requests = <<>>
    /\ cache = <<>>
    /\ cookies = FALSE
    /\ YTDLP_DEFAULT_OPTS = YtdlpDefaultOpts
    /\ tasks = [i \in 1 .. MaxChecks |-> NoTask]
    /\ last = Idle("start")
    /\ admitted = [k \in ClientKeys |-> <<>>]
    /\ denied = {}
    /\ written = <<>>
    /\ order = <<>>

\* A request of peer arrives and its middleware coroutine is created.
Arrive(peer) ==
    \E i \in DOMAIN tasks :
        /\ tasks[i].pc = "idle"
        /\ \A j \in 1 .. i - 1 : tasks[j].pc # "idle"
        /\ tasks' = [tasks EXCEPT ![i] = HttpTask("check", peer)]
        /\ last' = Idle("arrive")
        /\ UNCHANGED <<now, requests, cache, cookies, YTDLP_DEFAULT_OPTS, admitted, denied, written, order>>

\* Lines 82-96 for request i: the check and, if it passes, the call of the
\* handler (GET /health).
Check(i) ==
    /\ tasks[i].pc = "check"
    /\ \E m \in {rate_limit_middleware(requests, cache, cookies, tasks[i].peer,
                                        [endpoint |-> "/health"],
                                        Env(ReturnsNone, NoAudio, NoAudio), now)} :
           /\ requests' = m.requests
           /\ admitted' = IF m.passed
                          THEN [admitted EXCEPT ![ClientIp(tasks[i].peer)] = Append(@, now)]
                          ELSE admitted
           /\ denied' = IF m.allowed THEN denied \ {ClientIp(tasks[i].peer)}
                        ELSE denied \cup {ClientIp(tasks[i].peer)}
           /\ Stored("/health", ClientIp(tasks[i].peer),
                     [allowed |-> m.allowed, passed |-> m.passed],
                     InWindow(admitted[ClientIp(tasks[i].peer)], now),
                     m.allowed /\ ClientIp(tasks[i].peer) \in denied, m.answer)
           /\ tasks' = [tasks EXCEPT ![i] =
                            IF m.passed THEN HttpTask("handler", tasks[i].peer)
                            ELSE HttpTask("done", "")]
    /\ UNCHANGED <<now, cookies, YTDLP_DEFAULT_OPTS>>

\* Lines 96-105 for request i: the handler's response is sent.
Finish(i) ==
    /\ tasks[i].pc = "handler"
    /\ tasks' = [tasks EXCEPT ![i] = HttpTask("done", "")]
    /\ last' = Idle("finish")
    /\ UNCHANGED <<now, requests, cache, cookies, YTDLP_DEFAULT_OPTS, admitted, denied, written, order>>

ArriveAny == \E peer \in Peers : Arrive(peer)

CheckAny == \E i \in DOMAIN tasks : Check(i)

FinishAny == \E i \in DOMAIN tasks : Finish(i)

NextConcurrent == Tick \/ ArriveAny \/ CheckAny \/ FinishAny

SpecConcurrent == InitConcurrent /\ [][NextConcurrent]_vars

(***************************************************************************)
(* SpecFlights: up to MaxCalls calls of get_stream_info(url, "audio") and  *)
(* requests of stream_audio in flight at once, each followed from await to *)
(* await: the lookup (line 300 or 471), one step for each extract_info     *)
(* call of a chain of lines 164-191, and the write-back and return (lines  *)
(* 360-364 or 486-521).  A call can be cancelled wherever its coroutine is *)
(* waiting.  Its positions are named after the states of section 4.4:      *)
(* PENDING before the lookup, TRYING while a method's call is out,         *)
(* RESOLVED when the resolve has returned, and SUCCESS, FAILURE or         *)
(* CANCELLED when the coroutine is gone.                                   *)
(***************************************************************************)
\* A chain of lines 164-191 that has returned: its result and the methods it
\* called, each with the status of what the method returned.
Chain(result, tried) == [result |-> result, tried |-> tried]

NoChain == Chain(NoValue, <<>>)

\* op: the function called; tried and result: the chain under way or
\* returned; first: in stream_audio, the chain that failed before the retry
\* of line 484.
Call(op, pc, vid, tried, result, first) ==
    [op |-> op, pc |-> pc, vid |-> vid, tried |-> tried, result |-> result,
     first |-> first]

NoCall == Call("", "idle", "", <<>>, NoValue, NoChain)

\* A call that is over: its coroutine and its locals are gone.
Over(pc) == Call("", pc, "", <<>>, NoValue, NoChain)

Last(s) == s[Len(s)]

\* A method that has not been called stands as one that will succeed, so
\* that the chain of lines 164-191 stops at it.
NotCalled == [NoValue EXCEPT !.status = "success"]

\* The results for lines 164-191 when the methods of tried have failed,
\* method m has returned r and no other method has been called.
Partial(tried, m, r) ==
    [x \in MethodSet |->
        IF x = m THEN r
        ELSE IF \E k \in 1 .. Len(tried) : tried[k][1] = x THEN ErrorResult("", "")
        ELSE NotCalled]

\* The method lines 164-191 call next when those of tried have failed.
NextMethod(with_cookies, tried) ==
    Last(GetAudioStreamBody(with_cookies, Partial(tried, "", NoValue)).tried)[1]

\* use_cookies and the test of line 165 for the chain call c is in:
\* get_stream_info (line 309) and stream_audio (lines 476, 478) leave
\* use_cookies at its default, the retry of line 484 passes False.
WithCookies(c, ck) == c.first = NoChain /\ ck

\* The cache key of call c: line 299, line 470.
KeyOf(c) ==
    IF c.op = "stream_audio" THEN "audio:" \o c.vid
    ELSE CacheKey(c.vid, "audio", "best")

\* Lines 480-484: stream_audio calls get_audio_stream once more after the
\* chain ch, its first, has returned.
Retries(c, ch) ==
    /\ c.op = "stream_audio"
    /\ c.first = NoChain
    /\ Len(StreamAudioBody(<<>>, Url(TRUE, c.vid), TRUE, KeyOf(c),
                           [hit |-> FALSE, value |-> NoValue, cache |-> <<>>],
                           ch, NoChain, 0).chains) = 2

\* What a cancelled call leaves in the cache: asyncio.CancelledError is not
\* an Exception, so it passes the except clauses of lines 286, 366 and 525,
\* and there is no finally clause.
\* The mutant stores what the call holds in a finally clause.
CancelledMutFinally(c, key, call, t) == CacheSetDefault(c, key, call.result, t)

Cancelled(c, key, call, t) == c

\* The cookies file is there, so that a chain has four methods and the
\* retry of stream_audio three.
InitFlights ==
    /\ now = 0
    /\ requests = <<>>
    /\ cache = <<>>
    /\ cookies = TRUE
    /\ YTDLP_DEFAULT_OPTS = YtdlpDefaultOpts
    /\ tasks = [i \in 1 .. MaxCalls |-> NoCall]
    /\ last = Idle("start")
    /\ admitted = [k \in ClientKeys |-> <<>>]
    /\ denied = {}
    /\ written = <<>>
    /\ order = <<>>

\* get_stream_info(url, "audio") is called (lines 293-299), or the handler
\* stream_audio with force_refresh false (lines 462-470).
Start(op, url) ==
    \E i \in DOMAIN tasks :
        /\ tasks[i].pc = "idle"
        /\ \A j \in 1 .. i - 1 : tasks[j].pc # "idle"
        /\ tasks' = [tasks EXCEPT ![i] =
                         Call(op, "PENDING", extract_video_id(url), <<>>, NoValue, NoChain)]
        /\ last' = Idle("start")
        /\ UNCHANGED <<now, requests, cache, cookies, YTDLP_DEFAULT_OPTS, admitted, denied, written, order>>

\* Lines 300-303: the lookup of get_stream_info; a hit is returned.
Lookup(i) ==
    /\ tasks[i].pc = "PENDING"
    /\ tasks[i].op = "get_stream_info"
    /\ \E d \in {GetStreamInfoBody(cache, tasks[i].vid, KeyOf(tasks[i]),
                                    CacheGet(cache, KeyOf(tasks[i]), now),
                                    NoChain, now)} :
           /\ Stored("cache.get", "", NoVerdict, 0, FALSE, Answer(0, d))
           /\ tasks' = [tasks EXCEPT ![i] =
                            IF d.hit THEN Over("SUCCESS")
                            ELSE Call(tasks[i].op, "TRYING", tasks[i].vid,
                                      <<>>, NoValue, NoChain)]
    /\ UNCHANGED <<now, requests, cookies, YTDLP_DEFAULT_OPTS, admitted, denied>>

\* Lines 471-476: the lookup of stream_audio; a cached success stands for
\* the resolve (a result with no chain).
LookupAudio(i) ==
    /\ tasks[i].pc = "PENDING"
    /\ tasks[i].op = "stream_audio"
    /\ \E got \in {CacheGet(cache, KeyOf(tasks[i]), now)} :
           /\ Stored("cache.get", "", NoVerdict, 0, FALSE,
                     Answer(0, Did(KeyOf(tasks[i]), got.value, got.cache, 1, 0,
                                   got.hit, <<>>)))
           /\ tasks' = [tasks EXCEPT ![i] =
                            IF got.hit /\ got.value.status = "success"
                            THEN Call(tasks[i].op, "RESOLVED", tasks[i].vid,
                                      <<>>, got.value, NoChain)
                            ELSE Call(tasks[i].op, "TRYING", tasks[i].vid,
                                      <<>>, NoValue, NoChain)]
    /\ UNCHANGED <<now, requests, cookies, YTDLP_DEFAULT_OPTS, admitted, denied>>

\* Call c after method m of its chain has returned r, ch being what lines
\* 164-191 make of it: they go on to the next method, or return, and then
\* stream_audio may start its retry.
AfterMethod(c, m, ch) ==
    IF Last(ch.tried)[1] # m
    THEN Call(c.op, "TRYING", c.vid, SubSeq(ch.tried, 1, Len(ch.tried) - 1),
              NoValue, c.first)
    ELSE IF Retries(c, ch)
    THEN Call(c.op, "TRYING", c.vid, <<>>, NoValue, Chain(ch.result, ch.tried))
    ELSE Call(c.op, "RESOLVED", c.vid, ch.tried, ch.result, c.first)

\* One extract_info call of the chain (lines 233-234) returns out: the
\* method's result is built (lines 236-288) and lines 164-191 go on.
Try(i, out) ==
    /\ tasks[i].pc = "TRYING"
    /\ \E m \in {NextMethod(WithCookies(tasks[i], cookies), tasks[i].tried)} :
           tasks' = [tasks EXCEPT ![i] =
                        AfterMethod(tasks[i], m,
                            GetAudioStreamBody(WithCookies(tasks[i], cookies),
                                Partial(tasks[i].tried, m,
                                        TryAudioMethod(tasks[i].vid, m, out, now))))]
    /\ last' = Idle("extract_info")
    /\ UNCHANGED <<now, requests, cache, cookies, YTDLP_DEFAULT_OPTS, admitted, denied, written, order>>

\* Lines 360-364: get_stream_info stores a success and returns its result.
Return(i) ==
    /\ tasks[i].pc = "RESOLVED"
    /\ tasks[i].op = "get_stream_info"
    /\ \E d \in {GetStreamInfoBody(cache, tasks[i].vid, KeyOf(tasks[i]),
                                    [hit |-> FALSE, value |-> NoValue, cache |-> cache],
                                    Chain(tasks[i].result, tasks[i].tried), now)} :
           /\ Stored("get_stream_info", "", NoVerdict, 0, FALSE, Answer(0, d))
           /\ tasks' = [tasks EXCEPT ![i] =
                            IF d.result.status = "success" THEN Over("SUCCESS")
                            ELSE Over("FAILURE")]
    /\ UNCHANGED <<now, requests, cookies, YTDLP_DEFAULT_OPTS, admitted, denied>>

\* Lines 486-527: stream_audio builds its response, stores a success and
\* answers.
ReturnAudio(i) ==
    /\ tasks[i].pc = "RESOLVED"
    /\ tasks[i].op = "stream_audio"
    /\ \E a \in {StreamAudioBody(cache, Url(TRUE, tasks[i].vid), FALSE, KeyOf(tasks[i]),
                                  [hit |-> tasks[i].tried = <<>>,
                                   value |-> tasks[i].result, cache |-> cache],
                                  IF tasks[i].first = NoChain
                                  THEN Chain(tasks[i].result, tasks[i].tried)
                                  ELSE tasks[i].first,
                                  Chain(tasks[i].result, tasks[i].tried), now)} :
           /\ Stored("/stream/audio", "", NoVerdict, 0, FALSE, a)
           /\ tasks' = [tasks EXCEPT ![i] =
                            IF a.status = 302 THEN Over("SUCCESS") ELSE Over("FAILURE")]
    /\ UNCHANGED <<now, requests, cookies, YTDLP_DEFAULT_OPTS, admitted, denied>>

\* The coroutine of call i is cancelled where it waits.
Cancel(i) ==
    /\ tasks[i].pc \in {"PENDING", "TRYING", "RESOLVED"}
    /\ cache' = Cancelled(cache, KeyOf(tasks[i]), tasks[i], now)
    /\ tasks' = [tasks EXCEPT ![i] = Over("CANCELLED")]
    /\ last' = Idle("cancel") @@ [at |-> tasks[i].pc, by |-> tasks[i].op]
    /\ UNCHANGED <<now, requests, cookies, YTDLP_DEFAULT_OPTS, admitted, denied, written, order>>

\* What extract_info does when a method calls it: it fails with a message
\* that names cookies, returns None, or returns one audio format.
FlightOuts == {Raises("no cookies"), ReturnsNone, Returns(<<A128>>)}

StartAny == \E op \in {"get_stream_info", "stream_audio"} : Start(op, Video1)

LookupAny == \E i \in DOMAIN tasks : Lookup(i)

LookupAudioAny == \E i \in DOMAIN tasks : LookupAudio(i)

TryAny == \E i \in DOMAIN tasks : \E out \in FlightOuts : Try(i, out)

ReturnAny == \E i \in DOMAIN tasks : Return(i)

ReturnAudioAny == \E i \in DOMAIN tasks : ReturnAudio(i)

CancelAny == \E i \in DOMAIN tasks : Cancel(i)

NextFlights ==
    \/ StartAny
    \/ LookupAny
    \/ LookupAudioAny
    \/ TryAny
    \/ ReturnAny
    \/ ReturnAudioAny
    \/ CancelAny

SpecFlights == InitFlights /\ [][NextFlights]_vars

(***************************************************************************)
(* SpecTerminating: the calls of get_stream_info of SpecFlights, none      *)
(* cancelled, under the scheduling of the event loop: a coroutine that can *)
(* go on is resumed (the cache operations do not block), and every         *)
(* extract_info call that is out returns or raises in the end.             *)
(***************************************************************************)
StartResolve == Start("get_stream_info", Video1)

NextTerminating == StartResolve \/ LookupAny \/ TryAny \/ ReturnAny

\* The next step of call i: at each position one of the three.
StepOf(i) == Lookup(i) \/ (\E out \in FlightOuts : Try(i, out)) \/ Return(i)

Resumed(i) == WF_vars(StepOf(i))

SpecTerminating ==
    /\ InitFlights
    /\ [][NextTerminating]_vars
    /\ \A i \in 1 .. MaxCalls : Resumed(i)

(***************************************************************************)
(* Admission control (SpecAdmission, Spec)                                 *)
(***************************************************************************)
\* The step was an HTTP request, which went through the middleware.
WasHttp == last.client # ""

\* The step reached the cache or the external resolver.
Reached == last.gets + last.sets > 0 \/ last.chains # <<>>

\* C1: a client's check returns true, and its request is passed on, while
\* fewer than max_requests of its requests were admitted in the trailing
\* window, so from an empty window the first max_requests checks made within
\* one window all return true; the check that finds max_requests admissions
\* in the window returns false, and the request is answered 429; and a check
\* made once the window has elapsed since those admissions (none of them is
\* in the trailing window any more) returns true again.
C1_BurstThenRejectThenRecover ==
    WasHttp =>
        /\ (last.prior < max_requests => (last.allowed /\ last.passed))
        /\ (last.prior >= max_requests => (~last.allowed /\ last.status = 429))
        /\ (last.prior = 0 => (last.allowed /\ last.status # 429))

\* A client that filled its window and was rejected is admitted again with
\* nothing left in its window.
C1_Witness ==
    /\ WasHttp
    /\ last.recovered
    /\ last.allowed
    /\ last.prior = 0
    /\ Len(admitted[last.client]) = max_requests + 1

\* The admissions of client c at times in [t, t + window_duration].
AdmittedIn(c, t) ==
    Cardinality({i \in 1 .. Len(admitted[c]) :
                    admitted[c][i] >= t /\ admitted[c][i] <= t + window_duration})

\* C2: for every client, no interval of length window_duration holds more
\* than max_requests admitted requests, and the timestamps the limiter has
\* recorded within the trailing window [now - window_duration, now] number
\* at most max_requests.
C2_WindowNeverOverfull ==
    /\ \A c \in ClientKeys : \A t \in Times : AdmittedIn(c, t) <= max_requests
    /\ \A c \in DOMAIN requests :
           Len(Prune(requests[c], now)) <= max_requests

\* Every client has filled its window, at a time after the start.
C2_Witness ==
    /\ now > 0
    /\ \A c \in ClientKeys :
           /\ c \in DOMAIN requests
           /\ InWindow(admitted[c], now) = max_requests
           /\ Len(Prune(requests[c], now)) = max_requests

\* C3: every request that reaches the cache or the external resolver was
\* preceded by a check_limit call for its client that returned true.
C3_EveryRequestGated == Reached => (WasHttp /\ last.allowed)

\* C4: an HTTP request the admission check rejects is answered 429, with no
\* cache get, no cache set and no external-resolver call made for it, and
\* the cache as it was.
C4_RejectedDoesNothing ==
    (WasHttp /\ ~last.allowed) =>
        /\ last.status = 429
        /\ ~last.passed
        /\ ~Reached
        /\ last.dropped = {}
        /\ last.result = NoValue

\* A request for a video whose result is in the cache is rejected.
C4_Witness ==
    /\ WasHttp
    /\ ~last.allowed
    /\ last.op = "/stream/video"
    /\ HasKey(cache, CacheKey("v1", "video", "best"))

(***************************************************************************)
(* The cache (SpecCache)                                                   *)
(***************************************************************************)
\* C5: a get(K) made right after set(K, V, T), with no time elapsed and no
\* set or clear in between, returns V; a get(K) made when more than T has
\* elapsed since the latest set of K is a miss; and a hit returns the value
\* of the latest set of K.
C5_SetThenGet ==
    [][ /\ (last.op = "set" /\ last'.op = "get" /\ last'.key = last.key /\ now' = now)
            => (last'.hit /\ last'.result = last.result)
        /\ (last'.op = "get" /\ ~last'.fresh) => ~last'.hit
        /\ (last'.op = "get" /\ last'.hit) => last'.result = last'.expected
      ]_vars

\* A get of a key that was set, is still held, and is past its ttl: a miss
\* that evicts the entry.
C5_Witness ==
    /\ last.op = "get"
    /\ last.expected # NoValue
    /\ ~last.fresh
    /\ ~last.hit
    /\ last.dropped = {last.key}

\* The set of a key that is not present, into a full cache.
EvictingSet ==
    /\ last'.op = "set"
    /\ last'.key \notin Keys(cache)
    /\ Len(cache) = max_entries

\* C6: the cache never holds more than max_entries entries; a set of a key
\* that is not present while the cache is full removes exactly one entry, the
\* one inserted earliest among those present, whatever was read since; any
\* other set removes none.
C6_BoundedFifo ==
    [][ /\ Len(cache') <= max_entries
        /\ EvictingSet => last'.dropped = {order[1]}
        /\ (last'.op = "set" /\ ~EvictingSet) => last'.dropped = {}
      ]_vars

\* A set has just evicted an entry from a full cache.
C6_Witness ==
    /\ last.op = "set"
    /\ last.dropped # {}
    /\ Len(cache) = max_entries
    /\ last.key \in Keys(cache)

(***************************************************************************)
(* Resolution through the cache (SpecResolve)                              *)
(***************************************************************************)
\* The step handed a successful result to its caller.
Served == last.result.status = "success" /\ last.status \in {0, 200, 302}

FailedResolve ==
    /\ last.op \in {"get_stream_info", "/stream/audio"}
    /\ last.result.status = "error"

\* Every entry of the cache is a successful result.
OnlySuccessCached == \A i \in 1 .. Len(cache) : cache[i].value.status = "success"

C9_SecondCallIsCached ==
    (last.op = "get_stream_info" /\ last.fresh) =>
        /\ last.hit
        /\ last.chains = <<>>
        /\ last.result = last.expected

\* An audio result, resolved earlier, is returned from the cache.
C9_Witness ==
    /\ last.op = "get_stream_info"
    /\ last.fresh
    /\ last.hit
    /\ last.result.type = "audio"
    /\ now > last.result.born

(***************************************************************************)
(* The fallback chain (SpecChain)                                          *)
(***************************************************************************)
\* The methods of chain ch are consecutive methods of the declared order,
\* from method 1 or (without cookies) from method 2.
InDeclaredOrder(ch) ==
    \E first \in {1, 2} :
        /\ first + Len(ch) - 1 <= Len(Methods)
        /\ \A j \in 1 .. Len(ch) : ch[j][1] = Methods[first + j - 1]

\* Every method of chain ch but the last one failed, and the chain ended
\* either at a success or at method 4.
StopsAtFirstSuccess(ch) ==
    /\ Len(ch) >= 1
    /\ \A j \in 1 .. Len(ch) - 1 : ch[j][2] = "error"
    /\ ch[Len(ch)][2] = "success" \/ ch[Len(ch)][1] = Methods[Len(Methods)]

\* C10: get_audio_stream tries its methods in the declared order and stops
\* at the first one that yields a selection, whose name the result reports
\* as method_used; when method 1 fails and method 2 succeeds, method_used is
\* method 2 and methods 3 and 4 are not called.
C10_ChainInOrderStopsAtFirstSuccess ==
    last.op = "get_audio_stream" =>
        \A i \in 1 .. Len(last.chains) :
            LET ch == last.chains[i]
            IN  /\ InDeclaredOrder(ch)
                /\ StopsAtFirstSuccess(ch)
                /\ last.result.status = ch[Len(ch)][2]
                /\ last.result.status = "success"
                       => last.result.method_used = ch[Len(ch)][1]
                /\ (Len(ch) >= 2 /\ ch[1] = <<Methods[1], "error">> /\ ch[2][2] = "success")
                       => /\ Len(ch) = 2
                          /\ last.result.method_used = Methods[2]

\* Method 1 failed and method 2 succeeded.
C10_Witness ==
    /\ last.op = "get_audio_stream"
    /\ last.chains = <<<<<<"cookies_method", "error">>, <<"mixed_format_method", "success">>>>>>
    /\ last.result.method_used = "mixed_format_method"

\* Every method chain ch called failed.
AllFailed(ch) == \A j \in 1 .. Len(ch) : ch[j][2] = "error"

\* C11: when every method get_audio_stream attempts fails, it returns a
\* failure result that is the result of method 4 (generic_method), the last
\* one called: its message is the message method 4 produced, and not the
\* message of an earlier method that failed with a different message.
C11_AllFailReturnsLastFailure ==
    (last.op = "get_audio_stream" /\ AllFailed(last.chains[1])) =>
        LET calls == last.calls
            final == calls[Len(calls)]
        IN  /\ last.result.status = "error"
            /\ final.method = "generic_method"
            /\ last.result = final.result
            /\ last.result.message = final.result.message
            /\ \A j \in 1 .. Len(calls) - 1 :
                   calls[j].result.message # final.result.message
                       => last.result.message # calls[j].result.message

\* All four methods were called and failed, each with its own message.
C11_Witness ==
    /\ last.op = "get_audio_stream"
    /\ Len(last.calls) = 4
    /\ AllFailed(last.chains[1])
    /\ last.result.message = "generic_method: Video unavailable"
    /\ last.calls[1].result.message = "cookies_method: Video unavailable"
    /\ last.calls[2].result.message = "No video info found"
    /\ last.calls[3].result.message = "No suitable formats in dash_method"

(***************************************************************************)
(* Format selection (SpecSelect)                                           *)
(***************************************************************************)
\* The step selected a format in _try_audio_method.
AudioSelected == last.op = "_try_audio_method" /\ last.result.status = "success"

\* The step selected a format in the video branch of get_stream_info.
VideoSelected ==
    last.op = "get_stream_info" /\ last.quality # "" /\ last.result.status = "success"

\* The format of the response the result's stream_url was taken from.
SelectedFormat ==
    CHOOSE f \in Range(last.formats) : StreamUrl(f) = last.result.stream_url

\* A numeric field that is present and not zero.
NonZero(v) == v > 0

\* (abr if non-zero else tbr else 0, asr or 0, filesize or 0)
AudioRank(f) ==
    <<IF NonZero(f.abr) THEN f.abr ELSE IF NonZero(f.tbr) THEN f.tbr ELSE 0,
      IF NonZero(f.asr) THEN f.asr ELSE 0,
      IF NonZero(f.filesize) THEN f.filesize ELSE 0>>

\* a comes before b in the lexicographic order of triples, or equals it.
LexLeq(a, b) ==
    \/ a[1] < b[1]
    \/ a[1] = b[1] /\ a[2] < b[2]
    \/ a[1] = b[1] /\ a[2] = b[2] /\ a[3] <= b[3]

\* C12: the format _try_audio_method selects is one of the formats that
\* passed its filter, and no format that passed has a greater key
\* (abr if non-zero else tbr else 0, asr or 0, filesize or 0) in the
\* lexicographic order; among (abr=128, asr=44100) and (abr=192, asr=48000)
\* the abr=192 format is selected.
C12_SelectedIsMaximal ==
    AudioSelected =>
        /\ \E f \in Range(last.formats) : StreamUrl(f) = last.result.stream_url
        /\ SelectedFormat \in Range(SuitableAudio(last.method, last.formats))
        /\ \A g \in Range(SuitableAudio(last.method, last.formats)) :
               LexLeq(AudioRank(g), AudioRank(SelectedFormat))
        /\ Range(last.formats) = {A128, A192}
               => last.result.stream_url = StreamUrl(A192)

\* The response lists abr=128 before abr=192, and abr=192 is selected.
C12_Witness ==
    /\ AudioSelected
    /\ last.formats = <<A128, A192>>
    /\ last.result.stream_url = StreamUrl(A192)
    /\ last.result.format.abr = 192

\* The height of a format, 0 when it has none.
HeightOf(f) == IF NonZero(f.height) THEN f.height ELSE 0

\* The formats of the response that carry video.
WithVideo == {f \in Range(last.formats) : f.vcodec # "none"}

\* Those of them at or under the ceiling of the requested quality.
UnderCeiling == {f \in WithVideo : HeightOf(f) <= Ceiling(last.quality)}

\* C13: for a video request of quality q, when the response holds a video
\* format of height <= ceiling(q) the selected format has height <=
\* ceiling(q) and is the highest such; only when none is under the ceiling
\* is the highest of all selected.
C13_SelectedUnderCeiling ==
    VideoSelected =>
        /\ UnderCeiling # {} =>
               /\ HeightOf(SelectedFormat) <= Ceiling(last.quality)
               /\ \A g \in UnderCeiling : HeightOf(g) <= HeightOf(SelectedFormat)
        /\ UnderCeiling = {} =>
               \A g \in WithVideo : HeightOf(g) <= HeightOf(SelectedFormat)

\* C14: in cookies_method, dash_method and generic_method the selected
\* format has an audio codec other than 'none' and the video codec 'none';
\* only mixed_format_method selects a format that also carries video.
C14_AudioOnlyOutsideMixed ==
    (AudioSelected /\ last.method # "mixed_format_method") =>
        /\ SelectedFormat.acodec # "none"
        /\ SelectedFormat.vcodec = "none"

\* C15: two resolver responses with the same formats in a different order,
\* for the same method or the same quality, give the same selection, also
\* when formats tie on the whole ranking key.
C15_SelectionIgnoresOrder ==
    (AudioSelected \/ VideoSelected) =>
        /\ last.other.status = "success"
        /\ last.other.stream_url = last.result.stream_url
        /\ last.other.format = last.result.format

\* The codec is there and names a codec.
CodecPresent(c) == c # "none" /\ c # "absent"

\* No format of the response passes the filter of the step.
NoneSurvives ==
    IF last.op = "_try_audio_method"
    THEN \A f \in Range(last.formats) : f.acodec = "none"
    ELSE \A f \in Range(last.formats) : f.vcodec = "none"

InvalidRequest ==
    /\ last.op \in MediaEndpoints
    /\ \/ ~is_valid_youtube_url(last.request.url)
       \/ last.op \in QualityEndpoints /\ last.request.quality \notin Qualities

\* C17: on /stream/video, /download/video, /stream/audio and
\* /download/audio a request with an invalid URL or an unsupported quality
\* is answered with the client error 400, with no cache lookup, no cache
\* write and no external-resolver call made for it.
C17_InvalidRejectedFirst ==
    InvalidRequest =>
        /\ last.status = 400
        /\ ~Reached
        /\ last.dropped = {}

(***************************************************************************)
(* Failures inside the fallback chain (SpecChain)                          *)
(***************************************************************************)
\* extract_info raised, returned no info, returned only formats without a
\* stream URL, or returned no format with an audio codec.
UpstreamFailure(out) ==
    \/ out.kind = "raise"
    \/ out.kind = "none"
    \/ out.kind = "info" /\ \A f \in Range(out.formats) : ~f.url
    \/ out.kind = "info" /\ \A f \in Range(out.formats) : f.acodec = "none"

\* The position of method m in the declared order.
PositionOf(m) == CHOOSE i \in 1 .. Len(Methods) : Methods[i] = m

\* C18: a _try_audio_method call in which extract_info raises, returns no
\* info, returns formats without a stream URL or returns nothing eligible
\* returns a result with status 'error' and a message, not an exception,
\* and get_audio_stream goes on to the next method of the declared order
\* (after method 4 it returns that result); the chain itself always returns
\* a result with status 'success' or 'error'.
C18_FailuresStayInChain ==
    last.op = "get_audio_stream" =>
        /\ last.result.status \in {"success", "error"}
        /\ \A j \in 1 .. Len(last.calls) :
               UpstreamFailure(last.calls[j].out) =>
                   /\ last.calls[j].result.status = "error"
                   /\ last.calls[j].result.message # ""
                   /\ IF last.calls[j].method = "generic_method"
                      THEN j = Len(last.calls) /\ last.result = last.calls[j].result
                      ELSE /\ j < Len(last.calls)
                           /\ last.calls[j + 1].method =
                                  Methods[PositionOf(last.calls[j].method) + 1]

\* Method 1 raised, method 2 got no info, method 3 got a format without a
\* stream URL, and method 4 succeeded.
C18_Witness ==
    /\ last.op = "get_audio_stream"
    /\ Len(last.calls) = 4
    /\ last.calls[1].out = Raises("Video unavailable")
    /\ last.calls[2].out = ReturnsNone
    /\ last.calls[3].out = Returns(<<NoUrl>>)
    /\ last.calls[3].result.message = "dash_method: 'url'"
    /\ last.result.status = "success"
    /\ last.result.method_used = "generic_method"

(***************************************************************************)
(* The keyspaces of the cache (SpecKeys)                                   *)
(***************************************************************************)
\* The keyspace a handler looks its key up in.
KeyspaceOf(op) ==
    CASE op = "/search" -> "search"
      [] op = "/info" -> "info"
      [] op = "/stream/audio" -> "audio"
      [] OTHER -> "generic"

\* The kind of handler that built a cached value: search_videos stores a
\* dict with 'query', get_video_info one with 'formats_count', and
\* get_stream_info and stream_audio store resolution results.
BuiltBy(value) ==
    IF "query" \in DOMAIN value THEN {"search"}
    ELSE IF "formats_count" \in DOMAIN value THEN {"info"}
    ELSE {"generic", "audio"}

\* C19: the key formats '{id}:{type}:{quality}', 'audio:{id}', 'info:{id}'
\* and 'search:{q}:{limit}' never give the same key for requests the
\* endpoints accept, so the value a cache lookup returns was stored by a
\* handler of the same keyspace.
C19_KeyspacesDisjoint ==
    (last.op \in {"/download/video", "/stream/audio", "/info", "/search"} /\ last.hit) =>
        KeyspaceOf(last.op) \in BuiltBy(last.result)

(***************************************************************************)
(* The write-back of stream_audio (SpecResolve)                            *)
(***************************************************************************)
\* C20: whenever the result stream_audio obtained has status 'success', the
\* handler stores it in the cache under 'audio:{video_id}' and answers with
\* the 302 redirect; nothing between obtaining the result and the cache
\* write ends the request.
C20_SuccessIsCachedAndRedirected ==
    (last.op = "/stream/audio" /\ last.result.status = "success") =>
        /\ last.status = 302
        /\ last.sets = 1
        /\ last.key = "audio:" \o last.result.video_id
        /\ HasKey(cache, last.key)
        /\ EntryOf(cache, last.key).value = last.result

(***************************************************************************)
(* Rejected checks (SpecAdmission)                                         *)
(***************************************************************************)
\* C21: a check that returns false records nothing: the timestamps the
\* limiter holds for the client within the trailing window are the same
\* after the call as before it, only stale ones being pruned; so a client
\* whose requests were rejected is admitted again at its first check that
\* finds fewer than max_requests of its admitted requests in the window,
\* however many rejected requests it sent in between.
C21_RejectedRecordsNothing ==
    [][ /\ (last'.client # "" /\ ~last'.allowed) =>
               /\ requests'[last'.client] = Prune(WindowOf(requests, last'.client), now)
               /\ Range(requests'[last'.client]) \subseteq Range(WindowOf(requests, last'.client))
               /\ admitted' = admitted
        /\ (last'.client \in denied
               /\ InWindow(admitted[last'.client], now') < max_requests) => last'.allowed
      ]_vars

\* A client rejected with a full window is admitted again while one of its
\* admitted requests is still in the window: the oldest one has just left.
C21_Witness ==
    /\ WasHttp
    /\ last.recovered
    /\ last.allowed
    /\ last.prior = max_requests - 1
    /\ last.prior > 0

(***************************************************************************)
(* The resolver calls of one request (SpecResolve)                         *)
(***************************************************************************)
\* No method is called twice in chain ch.
NoRepeat(ch) ==
    \A i \in 1 .. Len(ch) : \A j \in 1 .. Len(ch) : i # j => ch[i][1] # ch[j][1]

\* The number of _try_audio_method calls, one extract_info call each, in the
\* chains chs.
CallCount(chs) ==
    (IF Len(chs) >= 1 THEN Len(chs[1]) ELSE 0) + (IF Len(chs) >= 2 THEN Len(chs[2]) ELSE 0)

\* C24: in one get_audio_stream call no method is called twice; one
\* /stream/audio request calls get_audio_stream at most twice, the second
\* time (the retry without cookies) never calling cookies_method, and so
\* makes at most 7 external-resolver calls.
C24_AtMostSevenCalls ==
    /\ \A i \in 1 .. Len(last.chains) : NoRepeat(last.chains[i])
    /\ last.op = "/stream/audio" =>
           /\ Len(last.chains) <= 2
           /\ Len(last.chains) = 2 =>
                  \A j \in 1 .. Len(last.chains[2]) :
                      last.chains[2][j][1] # "cookies_method"
           /\ CallCount(last.chains) <= 7

\* A /stream/audio request in which all four methods failed on cookies and
\* the retry called the three methods that need none: 7 calls.
C24_Witness ==
    /\ last.op = "/stream/audio"
    /\ Len(last.chains) = 2
    /\ Len(last.chains[1]) = 4
    /\ Len(last.chains[2]) = 3
    /\ CallCount(last.chains) = 7

(***************************************************************************)
(* The format reported for the selection (SpecSelect)                      *)
(***************************************************************************)
\* A numeric field that is missing from the dict or None.
Missing(v) == v \in {PyAbsent, PyNone}

\* C26: when the format _try_audio_method selected has no abr, or no asr,
\* the abr, or asr, of the result's format is missing or None too, and not
\* a number the format does not carry.
C26_MissingNotFabricated ==
    AudioSelected =>
        /\ Missing(SelectedFormat.abr) => Missing(last.result.format.abr)
        /\ Missing(SelectedFormat.asr) => Missing(last.result.format.asr)

(***************************************************************************)
(* The boundary of expiry (SpecCache)                                      *)
(***************************************************************************)
\* The time elapsed since key k, still held, was last set.
AgeOf(k) == now - written[k].at

\* C27: a get(K) made when now - created_at equals the ttl is a hit that
\* returns the stored value and leaves the cache as it is; a get(K) made
\* when now - created_at > ttl is a miss that removes the entry, so that the
\* cache holds one entry fewer and a set of an absent key that follows
\* evicts nothing.
C27_StrictExpiry ==
    [][ /\ (last'.op = "get" /\ last'.key \in DOMAIN written) =>
               /\ AgeOf(last'.key) <= written[last'.key].ttl =>
                      /\ last'.hit
                      /\ last'.result = written[last'.key].value
                      /\ cache' = cache
               /\ AgeOf(last'.key) > written[last'.key].ttl =>
                      /\ ~last'.hit
                      /\ last'.result = NoValue
                      /\ last'.key \notin Keys(cache')
                      /\ Len(cache') = Len(cache) - 1
        /\ (last.op = "get" /\ last.dropped # {}
               /\ last'.op = "set" /\ last'.key \notin Keys(cache)) =>
               last'.dropped = {}
      ]_vars

\* A get is a hit when exactly the ttl, which is not zero, has elapsed since
\* the set.
C27_Witness ==
    /\ last.op = "get"
    /\ last.hit
    /\ last.key \in DOMAIN written
    /\ written[last.key].ttl > 0
    /\ AgeOf(last.key) = written[last.key].ttl

(***************************************************************************)
(* The single call of a video resolve (SpecResolve)                        *)
(***************************************************************************)
\* The step was a get_stream_info call for a video that missed the cache.
VideoMiss == last.op = "get_stream_info" /\ last.type = "video" /\ ~last.hit

\* extract_info raised, returned no info, or returned no format with video.
NoVideoFrom(out) ==
    \/ out.kind # "info"
    \/ \A f \in Range(out.formats) : f.vcodec = "none"

\* C28: a get_stream_info call for a video that misses the cache makes
\* exactly one external-resolver call; when the resolver raises, returns no
\* info or returns no video format, the result is a failure, nothing is
\* stored and no other method is tried.
C28_VideoResolvesOnce ==
    VideoMiss =>
        /\ Len(last.chains) = 1
        /\ last.chains[1] = <<<<"direct", last.result.status>>>>
        /\ last.gets = 1
        /\ NoVideoFrom(last.out) =>
               /\ last.result.status = "error"
               /\ last.result.stream_url = ""
               /\ last.sets = 0

\* The resolver answered a video request with an audio-only format: failure
\* after the one call.
C28_Witness ==
    /\ VideoMiss
    /\ last.out = Returns(<<A128>>)
    /\ last.result.message = "No suitable video format found"
    /\ last.chains = <<<<<<"direct", "error">>>>>>

(***************************************************************************)
(* force_refresh (SpecResolve)                                             *)
(***************************************************************************)
\* The step was a /stream/audio request with a valid URL and force_refresh.
Forced == last.op = "/stream/audio" /\ last.force_refresh /\ last.status # 400

\* C29: a /stream/audio request with force_refresh=true makes no cache.get
\* and always calls the resolver; a successful result is written under
\* 'audio:{video_id}', replacing the entry there, and a request without
\* force_refresh that follows is served that result from the cache.
C29_ForceRefreshStillWrites ==
    [][ /\ Forced' =>
               /\ last'.gets = 0
               /\ last'.chains # <<>>
               /\ last'.result.status = "success" =>
                      /\ last'.sets = 1
                      /\ HasKey(cache', "audio:" \o last'.result.video_id)
                      /\ EntryOf(cache', "audio:" \o last'.result.video_id).value
                             = last'.result
        /\ (Forced /\ last.result.status = "success"
               /\ last'.op = "/stream/audio" /\ last'.status # 400
               /\ ~last'.force_refresh) =>
               /\ last'.hit
               /\ last'.chains = <<>>
               /\ last'.result = last.result
      ]_vars

(***************************************************************************)
(* The start of the fallback chain (SpecChain)                             *)
(***************************************************************************)
\* C30: get_audio_stream calls cookies_method exactly when use_cookies is
\* true and the cookies file is configured and exists, and then calls it
\* first; otherwise the first method called is mixed_format_method; the
\* methods called are consecutive in the declared order, each one after a
\* failure of the one before, and the last one called either succeeded or is
\* generic_method.
C30_CookiesGateMethodOne ==
    last.op = "get_audio_stream" =>
        LET ch == last.chains[1]
        IN  /\ Len(ch) >= 1
            /\ (\E j \in 1 .. Len(ch) : ch[j][1] = "cookies_method")
                   <=> (last.use_cookies /\ cookies)
            /\ ch[1][1] = IF last.use_cookies /\ cookies
                          THEN "cookies_method" ELSE "mixed_format_method"
            /\ \A j \in 1 .. Len(ch) - 1 :
                   /\ PositionOf(ch[j + 1][1]) = PositionOf(ch[j][1]) + 1
                   /\ ch[j][2] # "success"
            /\ ch[Len(ch)][2] = "success" \/ ch[Len(ch)][1] = "generic_method"

\* The caller asks for cookies and there is no cookies file: the chain
\* starts at method 2 and ends at the success of method 3.
C30_Witness ==
    /\ last.op = "get_audio_stream"
    /\ last.use_cookies
    /\ ~cookies
    /\ last.chains[1] = <<<<"mixed_format_method", "error">>, <<"dash_method", "success">>>>

(***************************************************************************)
(* Concurrent checks (SpecConcurrent)                                      *)
(***************************************************************************)
\* The step is the check of a request in flight.
CheckStep == \E i \in DOMAIN tasks : tasks[i].pc = "check" /\ tasks'[i].pc # "check"

InFlight(i) == tasks[i].pc \in {"PENDING", "TRYING", "RESOLVED"}

ExtendsByOne(s, r) == Len(s) = Len(r) + 1 /\ SubSeq(s, 1, Len(r)) = r

\* C25: a call that has started ends in SUCCESS or in FAILURE, given that
\* every resolver call returns or fails in the end; while it is TRYING each
\* step adds one method to those it has called, a method it had not called
\* before, and it stays TRYING or has its result; and a call that is in
\* SUCCESS or FAILURE stays as it is.
C25_ResolveTerminates ==
    /\ \A i \in 1 .. MaxCalls :
           (tasks[i].pc \in {"PENDING", "TRYING", "RESOLVED"})
               ~> (tasks[i].pc \in {"SUCCESS", "FAILURE"})
    /\ [][\A i \in 1 .. MaxCalls :
            /\ tasks[i].pc \in {"SUCCESS", "FAILURE"} => tasks'[i] = tasks[i]
            /\ tasks[i].pc = "PENDING" => tasks'[i].pc \in {"PENDING", "TRYING", "SUCCESS"}
            /\ tasks[i].pc = "RESOLVED" =>
                   tasks'[i].pc \in {"RESOLVED", "SUCCESS", "FAILURE"}
            /\ (tasks[i].pc = "TRYING" /\ tasks'[i] # tasks[i]) =>
                   /\ tasks'[i].pc \in {"TRYING", "RESOLVED"}
                   /\ ExtendsByOne(tasks'[i].tried, tasks[i].tried)
                   /\ NoRepeat(tasks'[i].tried)
                   /\ Len(tasks'[i].tried) <= Len(Methods)
                   /\ tasks'[i].pc = "TRYING" => Last(tasks'[i].tried)[2] # "success"
         ]_vars

\* A call has just returned in FAILURE after each of the four methods was
\* called once and failed.
C25_Witness ==
    /\ last.op = "get_stream_info"
    /\ last.result.status = "error"
    /\ Len(last.chains) = 1
    /\ [j \in 1 .. Len(last.chains[1]) |-> last.chains[1][j][1]] = Methods
    /\ \E i \in DOMAIN tasks : tasks[i].pc = "FAILURE"

(***************************************************************************)
(* Error statuses of /info (SpecKeys)                                      *)
(***************************************************************************)
\* C31: a request of /info with a valid URL that misses the cache and for
\* which the resolver returns no metadata is answered 404.
C31_NotFoundReachesClient ==
    (/\ last.op = "/info"
     /\ is_valid_youtube_url(last.request.url)
     /\ ~last.hit
     /\ last.out.kind = "none") => last.status = 404

(***************************************************************************)
(* The shared options (SpecResolve)                                        *)
(***************************************************************************)
\* C32: after any sequence of calls config.YTDLP_DEFAULT_OPTS, its nested
\* 'extractor_args' included, is what it was at the start, so the options
\* get_ydl_options builds for a video of any quality are those it builds
\* from the initial dict.
C32_SharedOptionsUnchanged ==
    /\ YTDLP_DEFAULT_OPTS = YtdlpDefaultOpts
    /\ \A q \in Qualities :
           get_ydl_options(YTDLP_DEFAULT_OPTS, cookies, "video", q).ydl_opts
               = get_ydl_options(YtdlpDefaultOpts, cookies, "video", q).ydl_opts

\* get_stream_info has just built the options for a video (a miss, then
\* the one resolver call) while the cache holds the result of an earlier
\* call for audio.
C32_Witness ==
    /\ last.op = "get_stream_info"
    /\ last.type = "video"
    /\ BuildsOptions(last)
    /\ HasKey(cache, CacheKey("v1", "audio", "best"))

====
